---------------------------- MODULE Spec2Model ----------------------------
(***************************************************************************)
(* Export pipeline of china-land-gui (src/china_land/gui.py, export.py).   *)
(*                                                                         *)
(* Threads: the Tk UI thread (user actions, after() callbacks, timers),    *)
(* one export worker thread per accepted _start_export, and the fetch pool *)
(* (ThreadPoolExecutor) of each worker.  Shared state: the three caches,   *)
(* is_exporting, cancel_flag, pause_event, the progress counters and the   *)
(* after() queue.                                                          *)
(***************************************************************************)
EXTENDS Integers, Sequences, FiniteSets, TLC

\* ------------------------------------------------------------------ bounds
NumYears == 2      \* years offered by the remote site
NumMags == 3       \* magazines of the remote site, dealt to the years in turn
NumArts == 4       \* articles of the remote site, dealt to the magazines in turn
MaxRuns == 2       \* accepted _start_export calls in one behaviour
MaxFaults == 1     \* remote calls / file writes that raise in one behaviour
MaxCancels == 1    \* clicks on the cancel button in one behaviour
PoolMags == 2      \* magazines of the one year of the site of SpecPool
PoolArtsPerMag == 4    \* articles of each magazine of the site of SpecPool
LiveArts == 2       \* articles of the one magazine of the site of SpecLive
MaxIndex == 2        \* index values 0..MaxIndex and MaxIndex non-numeric strings
MaxText == 5         \* characters of a text that is cleaned
MaxTags == 3         \* fragments of the HTML images are extracted from
MaxName == 2         \* characters of a page name
MaxRecords == 3      \* lines of an NDJSON file
DocMags == 3         \* magazines of a year or corpus document
MaxCollected == 2    \* articles collected for a year or corpus document
MaxOrdinal == 1000   \* article ordinals rendered: 0..MaxOrdinal, four digits included
MaxIndexText == 2    \* characters of an index that is a text
MaxTotal == 6        \* totals posted to start_progress in SpecProgress: 0..MaxTotal
MaxPosted == 3       \* callbacks pending at a time in SpecProgress
MaxList == 3         \* articles in a list that is sorted
PauseMags == 2      \* magazines, of one article each, of the site of SpecPause
MaxLogins == 2     \* calls of login_and_load in one behaviour of SpecCache
MaxCalls == 2      \* calls of one cache accessor with one key in SpecCache

\* ------------------------------------------------------- program constants
MAX_WORKERS == 3            \* ThreadPoolExecutor(max_workers=3)
CANCEL_DELAY == 1000        \* self.after(1000, self._finish_cancel)
RESET_DELAY == 1500         \* self.after(1500, self.reset_progress)

None == 0 - 1               \* Python's None (every id, index and count is >= 0)

Runs == 1..MaxRuns

Modes == {"per_article", "per_issue", "per_year", "all_in_one"}
Scopes == {"issue", "year", "all"}

\* ------------------------------------------------- dicts as TLA+ functions
Get(d, k) == IF k \in DOMAIN d THEN d[k] ELSE None

Put(d, k, v) == [x \in DOMAIN d \cup {k} |-> IF x = k THEN v ELSE d[x]]

EmptyDict == [x \in {} |-> None]

Range(s) == {s[i] : i \in 1..Len(s)}

\* ------------------------------------------------------- the remote site
\* what the site holds (site.years, site.mags, site.arts) is fixed for a session;
\* magazines are dealt to the years in turn, articles to the magazines in turn.
\* site.list_fields are the optional fields its article listings carry and
\* site.detail_fields the optional fields its article details carry
VARIABLE site

\* the optional fields the model follows: one per case of the enrichment rule
OptionalFields == {"author", "pageNumber", "coverImgPath"}

\* the value of an optional field of article a in the listing and in the detail
ListValue(a) == 100 + a
DetailValue(a) == 200 + a

Years == 1..site.years
Mags == 1..site.mags
Arts == 1..site.arts

YearOfMag(m) == ((m - 1) % site.years) + 1
MagOfArt(a) == ((a - 1) % site.mags) + 1
\* the site lists magazines newest first and articles in reverse index order
DateOf(m) == site.mags + 1 - m
IndexOf(a) == site.arts + 1 - a

MagRecord(m) == [id |-> m, year |-> YearOfMag(m), date |-> DateOf(m)]
ArtRecord(a) ==
    [k \in {"id", "index"} \cup site.list_fields |->
        IF k = "id" THEN a ELSE IF k = "index" THEN IndexOf(a) ELSE ListValue(a)]

RECURSIVE AscSeq(_)
AscSeq(S) ==
    IF S = {} THEN << >>
    ELSE LET m == CHOOSE x \in S : \A y \in S : x <= y
         IN <<m>> \o AscSeq(S \ {m})

MagIdsOfYear(y) == AscSeq({m \in Mags : YearOfMag(m) = y})
ArtIdsOfMag(m) == AscSeq({a \in Arts : MagOfArt(a) = m})

fetch_years == [i \in 1..site.years |-> i]
fetch_magazines(y) == [i \in 1..Len(MagIdsOfYear(y)) |-> MagRecord(MagIdsOfYear(y)[i])]
fetch_articles(m) == [i \in 1..Len(ArtIdsOfMag(m)) |-> ArtRecord(ArtIdsOfMag(m)[i])]
fetch_article_detail(a) ==
    [k \in {"id", "html"} \cup site.detail_fields |->
        IF k \in {"id", "html"} THEN a ELSE DetailValue(a)]


\* ----------------------------------------------------- cache and enrichment
FETCH_KEYS == {"title", "titleHtml", "author", "authorHtml", "column", "text",
               "pageNumber", "coverImgPath"}
CACHED_KEYS == {"title", "titleHtml", "author", "authorHtml", "column", "text",
                "pageNumber"}

\* detail.setdefault("index", base.get("index")), then the key loop
Enrich(detail, base, keys) ==
    LET d1 == IF "index" \in DOMAIN detail THEN detail
              ELSE Put(detail, "index", Get(base, "index"))
        add == {k \in keys : k \notin DOMAIN d1 /\ k \in DOMAIN base}
    IN [k \in DOMAIN d1 \cup add |-> IF k \in DOMAIN d1 THEN d1[k] ELSE base[k]]

\* `if base:` -- a dict is truthy when it is not empty
Truthy(d) == DOMAIN d # {}

\* get_article_detail on a cache hit: a copy of the cached record, enriched
CachedDetail(cache, article_id, base) ==
    IF Truthy(base) THEN Enrich(cache[article_id], base, CACHED_KEYS)
    ELSE cache[article_id]

\* get_article_detail on a miss: the fetched record, enriched, is what is stored
FetchedDetail(article_id, base) ==
    IF Truthy(base) THEN Enrich(fetch_article_detail(article_id), base, FETCH_KEYS)
    ELSE fetch_article_detail(article_id)

\* ------------------------------------------------------------- documents
\* key=lambda x: x.get("index") or 0
IndexKey(x) == IF Get(x, "index") = None THEN 0 ELSE x["index"]
\* key=lambda m: m.get("date", "")
DateKey(m) == IF "date" \in DOMAIN m THEN m["date"] ELSE 0

\* sorted(): stable insertion by an integer key
RECURSIVE InsertByKey(_, _, _, _)
InsertByKey(s, ks, x, kx) ==
    IF s = << >> THEN <<x>>
    ELSE IF kx < Head(ks) THEN <<x>> \o s
    ELSE <<Head(s)>> \o InsertByKey(Tail(s), Tail(ks), x, kx)

RECURSIVE SortByKeys(_, _)
SortByKeys(s, ks) ==
    IF s = << >> THEN << >>
    ELSE LET n == Len(s)
             front == SortByKeys(SubSeq(s, 1, n - 1), SubSeq(ks, 1, n - 1))
             fk == SortByKeys(SubSeq(ks, 1, n - 1), SubSeq(ks, 1, n - 1))
         IN InsertByKey(front, fk, s[n], ks[n])

\* the articles written in the order they were collected
SortedByIndexNot(articles) == articles

SortedByIndex(articles) ==
    SortByKeys(articles, [i \in 1..Len(articles) |-> IndexKey(articles[i])])
\* the magazines in the order they were listed
SortedByDateNot(magazines) == magazines

SortedByDate(magazines) ==
    SortByKeys(magazines, [i \in 1..Len(magazines) |-> DateKey(magazines[i])])

Ids(s) == [i \in 1..Len(s) |-> s[i].id]

\* a written file: its kind, what it is named after, and its sections of
\* rendered articles (the article ids, in the order they are rendered)
Section(year, mag, articles) == [year |-> year, mag |-> mag, arts |-> Ids(articles)]

write_article_separately(article, magazine_meta) ==
    [kind |-> "article", of |-> article.id,
     sections |-> <<Section(Get(magazine_meta, "year"), magazine_meta.id, <<article>>)>>]

write_issue_markdown(magazine_meta, articles) ==
    [kind |-> "issue", of |-> magazine_meta.id,
     sections |-> <<Section(Get(magazine_meta, "year"), magazine_meta.id, articles)>>]

\* `if mag_id:` / `if year and mag_id:` -- None and 0 are falsy
TruthyVal(v) == v # None /\ v # 0

\* articles_by_mag[mag_id] of write_year_markdown
GroupByMag(all_articles, mag_id) ==
    SelectSeq(all_articles, LAMBDA x : TruthyVal(Get(x, "magazine_id"))
                                       /\ x["magazine_id"] = mag_id)

\* articles_by_year_mag[year][mag_id] of write_all_markdown
GroupByYearMag(all_articles, year, mag_id) ==
    SelectSeq(all_articles, LAMBDA x : /\ TruthyVal(Get(x, "year"))
                                       /\ TruthyVal(Get(x, "magazine_id"))
                                       /\ x["year"] = year
                                       /\ x["magazine_id"] = mag_id)

YearSections(year, magazines, all_articles) ==
    LET mags == SortedByDate(magazines)
    IN [i \in 1..Len(mags) |->
          Section(year, mags[i].id, SortedByIndex(GroupByMag(all_articles, mags[i].id)))]

write_year_markdown(year, magazines, all_articles) ==
    [kind |-> "year", of |-> year, sections |-> YearSections(year, magazines, all_articles)]

RECURSIVE Concat(_)
Concat(ss) == IF ss = << >> THEN << >> ELSE Head(ss) \o Concat(Tail(ss))

\* mags = [m for y, ms in year_magazines if y == year for m in ms]
MagsOfYearIn(year_magazines, year) ==
    Concat([i \in 1..Len(year_magazines) |->
              IF year_magazines[i][1] = year THEN year_magazines[i][2] ELSE << >>])

AllSections(years, year_magazines, all_articles) ==
    Concat([i \in 1..Len(years) |->
        LET mags == SortedByDate(MagsOfYearIn(year_magazines, years[i]))
        IN [j \in 1..Len(mags) |->
              Section(years[i], mags[j].id,
                      SortedByIndex(GroupByYearMag(all_articles, years[i], mags[j].id)))]])

write_all_markdown(years, year_magazines, all_articles) ==
    [kind |-> "all", of |-> 0, sections |-> AllSections(years, year_magazines, all_articles)]

\* ----------------------------------------------------------------- state
VARIABLES
    \* ChinaLandGUI fields
    is_exporting, cancel_flag, pause_event, event_set, export_mode_var,
    current_year, current_magazine_id, year_values,
    magazines_by_year, articles_by_mag, article_details,
    progress_total, progress_current,
    \* widget states set by disable_export_controls / _start_export
    export_controls, pause_button, cancel_button,
    \* callbacks scheduled with after(), in scheduling order
    after_queue,
    \* export worker threads, one per accepted _start_export
    nruns, w,
    \* environment: export runs the user will still start, remote calls and
    \* file writes that will still raise, cancel clicks so far
    runs_left, faults_left, ncancels,
    \* history, per run: files written, articles write_article_separately was
    \* called for, terminal handlers executed, the number of files written and
    \* whether the worker was between two magazines when cancel_export was first
    \* invoked, the kinds of exception raised, and the outcome of each detail fetch
    written, write_calls, terminals, cancel_at, cancel_between, raised, fetch_ok, fetch_err,
    \* since the initial state: calls of login_and_load and their outcomes; per
    \* cache accessor and key, the calls of the accessor and the calls it made
    \* of the remote client
    logins, access,
    \* the issue selector and the article list: widget state and contents
    issue_combo, article_list,
    \* the listing on_year_selected / on_issue_selected is loading, with the
    \* state the handler found when it was invoked and the number of logins
    \* that had succeeded by then
    selection,
    \* per run: the number of files written when toggle_pause closed its gate,
    \* None while the gate is open
    paused_at,
    \* a call of a function of export.py: the function, its input, its result
    call

gui == <<is_exporting, cancel_flag, pause_event, event_set, export_mode_var,
         current_year, current_magazine_id, year_values,
         progress_total, progress_current,
         export_controls, pause_button, cancel_button>>
caches == <<magazines_by_year, articles_by_mag, article_details>>
history == <<written, write_calls, terminals, cancel_at, cancel_between, raised,
             fetch_ok, fetch_err>>
env == <<site, runs_left, faults_left>>
widgets == <<issue_combo, article_list>>
\* everything but `call`
session == <<site, runs_left, faults_left, gui, caches, after_queue, nruns, w, ncancels,
             history, logins, access, widgets, selection, paused_at>>
vars == <<site, runs_left, faults_left, gui, caches, after_queue, nruns, w, ncancels, history,
          logins, access, widgets, selection, paused_at, call>>

\* the keys of the three accessors
AccessKeys ==
    ({"magazines"} \X Years) \cup ({"articles"} \X Mags) \cup ({"detail"} \X Arts)

\* one more call of accessor `kind` with key `id`: served from the cache (hit),
\* or passed on to the remote client
Called(acc, kind, id, hit) ==
    [acc EXCEPT ![<<kind, id>>] = [calls |-> @.calls + 1,
                                   remote |-> @.remote + (IF hit THEN 0 ELSE 1)]]

IdleWorker ==
    [pc |-> "idle", scope |-> "", mode |-> "", year |-> 0, magazine |-> EmptyDict,
     years |-> << >>, magazines |-> << >>, arts |-> << >>,
     cancel_flag |-> FALSE, pause_event |-> 0,
     yi |-> 0, mi |-> 0, ci |-> 0,
     futs |-> << >>, yielded |-> {}, cur |-> 0,
     mag_articles |-> << >>, year_all_articles |-> << >>, all_articles |-> << >>,
     year_magazines |-> << >>, total_items |-> 0, posted |-> "",
     progress_started |-> FALSE, direct_ui |-> {}]

\* no selection has been made
NoSelection == [pc |-> "idle", kind |-> "", key |-> 0, before |-> << >>, login |-> 0]

\* no function of export.py has been called
NoCall == [fn |-> "", pc |-> "idle"]

\* Listbox.delete(0, END): a disabled Tk listbox ignores insert and delete
Deleted(list) == IF list.state = "disabled" THEN list ELSE [list EXCEPT !.items = << >>]

\* set_loading(loading) when no export is running
Loading(combo, loading) ==
    [combo EXCEPT !.state = IF loading \/ combo.values = << >> THEN "disabled" ELSE "readonly"]

\* the state of a session once on_login_success has filled the year selector
Fresh ==
    /\ selection = NoSelection
    /\ paused_at = [r \in Runs |-> None]
    /\ is_exporting = FALSE
    /\ cancel_flag = FALSE
    /\ pause_event = 0
    /\ event_set = [r \in Runs |-> FALSE]
    /\ export_mode_var = "per_issue"
    /\ year_values = fetch_years
    /\ article_details = EmptyDict
    /\ progress_total = 1
    /\ progress_current = 0
    /\ export_controls = "normal"
    /\ pause_button = "disabled"
    /\ cancel_button = "disabled"
    /\ after_queue = << >>
    /\ nruns = 0
    /\ w = [r \in Runs |-> IdleWorker]
    /\ ncancels = 0
    /\ written = [r \in Runs |-> << >>]
    /\ write_calls = [r \in Runs |-> << >>]
    /\ terminals = [r \in Runs |-> << >>]
    /\ cancel_at = [r \in Runs |-> None]
    /\ cancel_between = [r \in Runs |-> FALSE]
    /\ raised = [r \in Runs |-> {}]
    /\ fetch_ok = [r \in Runs |-> {}]
    /\ fetch_err = [r \in Runs |-> {}]
    /\ logins = [started |-> 0, ok |-> 0, failed |-> 0]
    /\ access = [k \in AccessKeys |-> [calls |-> 0, remote |-> 0]]

\* the user has only logged in: nothing is selected, the caches are empty
LoggedIn ==
    /\ call = NoCall
    /\ issue_combo = [state |-> "disabled", values |-> << >>]
    /\ article_list = [state |-> "normal", items |-> << >>]
    /\ current_year = None
    /\ current_magazine_id = None
    /\ magazines_by_year = EmptyDict
    /\ articles_by_mag = EmptyDict

\* the user has picked a year and one of its issues: on_year_selected and
\* on_issue_selected have cached that year's magazines and that issue's articles
Selected ==
    /\ call = NoCall
    /\ current_year \in Years
    /\ current_magazine_id \in {m \in Mags : YearOfMag(m) = current_year}
    /\ magazines_by_year = [y \in {current_year} |-> fetch_magazines(y)]
    /\ articles_by_mag = [m \in {current_magazine_id} |-> fetch_articles(m)]
    /\ issue_combo = [state |-> "readonly", values |-> Ids(fetch_magazines(current_year))]
    /\ article_list = [state |-> "normal",
                       items |-> Ids(SortedByIndex(fetch_articles(current_magazine_id)))]

\* a session in which the user starts one export, on a site of NumYears years
Init ==
    /\ site = [years |-> NumYears, mags |-> NumMags, arts |-> NumArts,
               list_fields |-> {}, detail_fields |-> {}]
    /\ runs_left = 1
    /\ faults_left = MaxFaults
    /\ Fresh
    /\ (LoggedIn \/ Selected)

\* a session in which the user starts MaxRuns exports of the one article of the
\* one issue of a small site
InitRuns ==
    /\ site = [years |-> 1, mags |-> 1, arts |-> 1, list_fields |-> {}, detail_fields |-> {}]
    /\ runs_left = MaxRuns
    /\ faults_left = 0
    /\ Fresh
    /\ Selected

\* a session in which the user exports the selected year of a site whose
\* magazines have more articles than the pool has threads
InitPool ==
    /\ site = [years |-> 1, mags |-> PoolMags, arts |-> PoolMags * PoolArtsPerMag,
               list_fields |-> {}, detail_fields |-> {}]
    /\ runs_left = 1
    /\ faults_left = 0
    /\ Fresh
    /\ Selected

\* a session that starts no export: the accessors are called one after the
\* other, on a site whose listings and details carry any of the optional fields
InitCache ==
    /\ site \in [years : {1}, mags : {1}, arts : {1},
                 list_fields : SUBSET OptionalFields, detail_fields : SUBSET OptionalFields]
    /\ runs_left = 0
    /\ faults_left = MaxFaults
    /\ Fresh
    /\ LoggedIn

\* a session in which the user starts one export on a site of one magazine
InitLive ==
    /\ site = [years |-> 1, mags |-> 1, arts |-> LiveArts,
               list_fields |-> {}, detail_fields |-> {}]
    /\ runs_left = 1
    /\ faults_left = MaxFaults
    /\ Fresh
    /\ Selected

\* ------------------------------------------------------- the after() queue
Callback(fn, delay, run, arg) == [fn |-> fn, delay |-> delay, run |-> run, arg |-> arg]

\* Tk runs a callback when it is due: one scheduled later with a delay at
\* least as long never overtakes it
MayRun(q, i) == \A j \in 1..(i - 1) : q[j].delay > q[i].delay

Remove(q, i) == SubSeq(q, 1, i - 1) \o SubSeq(q, i + 1, Len(q))

\* ------------------------------------------------------ cache accessors
\* an accessor that returns what it fetched and stores nothing
MagazinesAfterNotStored(cache, year) == cache

\* an accessor that leaves an empty entry behind when the remote call raises
AfterRaiseEmptyEntry(cache, key) == Put(cache, key, << >>)

\* the cache after the remote call of an accessor raised: the assignment that
\* follows the call is not reached
AfterRaise(cache, key) == cache

\* the cache after a successful get_magazines_for_year / get_articles_for_magazine
MagazinesAfter(cache, year) ==
    IF year \in DOMAIN cache THEN cache ELSE Put(cache, year, fetch_magazines(year))
ArticlesAfter(cache, magazine_id) ==
    IF magazine_id \in DOMAIN cache THEN cache
    ELSE Put(cache, magazine_id, fetch_articles(magazine_id))

\* ------------------------------------------------------------ UI thread

\* get_current_magazine: the magazine record, or the empty dict for None
CurrentMagazine ==
    IF current_year = None \/ current_magazine_id = None THEN EmptyDict
    ELSE LET magazines == IF current_year \in DOMAIN magazines_by_year
                          THEN magazines_by_year[current_year] ELSE << >>
             hits == SelectSeq(magazines, LAMBDA m : m.id = current_magazine_id)
         IN IF hits = << >> THEN EmptyDict ELSE Head(hits)

\* _start_export(func): func is the worker closure `wr`
\* _start_export without `self.cancel_flag = False`
StartExportKeepingCancel(wr) ==
    IF is_exporting
    THEN UNCHANGED <<is_exporting, cancel_flag, pause_event, event_set, pause_button,
                     cancel_button, export_controls, widgets, nruns, w, runs_left>>
    ELSE /\ is_exporting' = TRUE
         /\ runs_left' = runs_left - 1
         /\ cancel_flag' = cancel_flag
         /\ pause_event' = nruns + 1
         /\ event_set' = [event_set EXCEPT ![nruns + 1] = TRUE]
         /\ pause_button' = "normal"
         /\ cancel_button' = "normal"
         /\ export_controls' = "disabled"
         /\ issue_combo' = [issue_combo EXCEPT !.state = "disabled"]
         /\ article_list' = [article_list EXCEPT !.state = "disabled"]
         /\ nruns' = nruns + 1
         /\ w' = [w EXCEPT ![nruns + 1] = [wr EXCEPT !.pc = "capture"]]

StartExport(wr) ==
    IF is_exporting
    THEN UNCHANGED <<is_exporting, cancel_flag, pause_event, event_set, pause_button,
                     cancel_button, export_controls, widgets, nruns, w, runs_left>>
    ELSE /\ is_exporting' = TRUE
         /\ runs_left' = runs_left - 1
         /\ cancel_flag' = FALSE
         /\ pause_event' = nruns + 1
         /\ event_set' = [event_set EXCEPT ![nruns + 1] = TRUE]
         /\ pause_button' = "normal"
         /\ cancel_button' = "normal"
         /\ export_controls' = "disabled"
         /\ issue_combo' = [issue_combo EXCEPT !.state = "disabled"]
         /\ article_list' = [article_list EXCEPT !.state = "disabled"]
         /\ nruns' = nruns + 1
         /\ w' = [w EXCEPT ![nruns + 1] = [wr EXCEPT !.pc = "capture"]]

NoStart ==
    UNCHANGED <<is_exporting, cancel_flag, pause_event, event_set, pause_button,
                cancel_button, export_controls, widgets, nruns, w, runs_left>>

export_selected_issue(mode) ==
    /\ export_controls = "normal"
    /\ runs_left > 0
    /\ export_mode_var' = mode
    /\ CurrentMagazine # EmptyDict
    /\ LET magazine == CurrentMagazine IN
       \E fail \in BOOLEAN :
         /\ fail => (magazine.id \notin DOMAIN articles_by_mag /\ faults_left > 0)
         /\ faults_left' = IF fail THEN faults_left - 1 ELSE faults_left
         /\ articles_by_mag' = IF fail THEN articles_by_mag
                               ELSE ArticlesAfter(articles_by_mag, magazine.id)
         /\ IF fail \/ articles_by_mag'[magazine.id] = << >>
            THEN NoStart
            ELSE StartExport([IdleWorker EXCEPT !.scope = "issue", !.mode = mode,
                                                !.magazine = magazine,
                                                !.arts = articles_by_mag'[magazine.id]])
    /\ access' = Called(access, "articles", CurrentMagazine.id,
                       CurrentMagazine.id \in DOMAIN articles_by_mag)
    /\ UNCHANGED <<site, logins, selection, paused_at, call, current_year,
                   current_magazine_id, year_values, progress_total, progress_current,
                   magazines_by_year, article_details, after_queue, ncancels, history>>

export_selected_year(mode) ==
    /\ export_controls = "normal"
    /\ runs_left > 0
    /\ export_mode_var' = mode
    /\ current_year # None
    /\ \E fail \in BOOLEAN :
         /\ fail => (current_year \notin DOMAIN magazines_by_year /\ faults_left > 0)
         /\ faults_left' = IF fail THEN faults_left - 1 ELSE faults_left
         /\ magazines_by_year' = IF fail THEN magazines_by_year
                                 ELSE MagazinesAfter(magazines_by_year, current_year)
         /\ IF fail \/ magazines_by_year'[current_year] = << >>
            THEN NoStart
            ELSE StartExport([IdleWorker EXCEPT !.scope = "year", !.mode = mode,
                                                !.year = current_year,
                                                !.magazines = magazines_by_year'[current_year]])
    /\ access' = Called(access, "magazines", current_year,
                       current_year \in DOMAIN magazines_by_year)
    /\ UNCHANGED <<site, logins, selection, paused_at, call, current_year,
                   current_magazine_id, year_values, progress_total, progress_current,
                   articles_by_mag, article_details, after_queue, ncancels, history>>

export_all(mode) ==
    /\ export_controls = "normal"
    /\ runs_left > 0
    /\ export_mode_var' = mode
    /\ year_values # << >>
    /\ StartExport([IdleWorker EXCEPT !.scope = "all", !.mode = mode,
                                      !.years = year_values])
    /\ UNCHANGED <<site, logins, selection, paused_at, call, access, current_year,
                   current_magazine_id, year_values, progress_total, progress_current, caches,
                   after_queue, faults_left, ncancels, history>>

\* the worker has finished a magazine (its documents are written) and has not
\* begun the next: it is at the top of `for mag in magazines`, or at the
\* progress post that follows write_issue_markdown
BetweenMagazines(wr) == wr.pc = "mag_head" \/ (wr.pc = "post_unit" /\ wr.mode # "per_year")

toggle_pause ==
    /\ pause_button = "normal"
    /\ event_set' = IF pause_event = 0 THEN event_set
                    ELSE [event_set EXCEPT ![pause_event] = ~@]
    /\ UNCHANGED <<is_exporting, cancel_flag, pause_event, export_mode_var, current_year,
                   current_magazine_id, year_values, progress_total, progress_current,
                   export_controls, pause_button, cancel_button>>
    /\ paused_at' = IF pause_event = 0 THEN paused_at
                    ELSE [paused_at EXCEPT ![pause_event] =
                            IF event_set[pause_event] THEN Len(written[pause_event])
                            ELSE None]
    /\ UNCHANGED <<env, widgets, selection, call, logins, access, caches, after_queue, nruns,
                   w, ncancels, history>>

cancel_export ==
    /\ cancel_button = "normal"
    /\ ncancels < MaxCancels
    /\ ncancels' = ncancels + 1
    /\ cancel_flag' = TRUE
    /\ event_set' = IF pause_event = 0 THEN event_set
                    ELSE [event_set EXCEPT ![pause_event] = TRUE]
    /\ after_queue' = Append(after_queue, Callback("_finish_cancel", CANCEL_DELAY, nruns, 0))
    /\ cancel_at' = [cancel_at EXCEPT ![nruns] = IF @ = None THEN Len(written[nruns]) ELSE @]
    /\ cancel_between' = [cancel_between EXCEPT ![nruns] =
                            IF cancel_at[nruns] = None THEN BetweenMagazines(w[nruns]) ELSE @]
    /\ UNCHANGED <<is_exporting, pause_event, export_mode_var, current_year,
                   current_magazine_id, year_values, progress_total, progress_current,
                   export_controls, pause_button, cancel_button>>
    /\ paused_at' = IF pause_event = 0 THEN paused_at
                    ELSE [paused_at EXCEPT ![pause_event] = None]
    /\ UNCHANGED <<env, widgets, selection, call, logins, access, caches, nruns, w, written,
                   write_calls, terminals, raised, fetch_ok, fetch_err>>

\* the callback at position i of the queue is due and is taken off the queue
Due(i, fn) ==
    /\ i \in 1..Len(after_queue)
    /\ after_queue[i].fn = fn
    /\ MayRun(after_queue, i)

Max(a, b) == IF a >= b THEN a ELSE b
Min(a, b) == IF a <= b THEN a ELSE b

start_progress ==
    \E i \in 1..Len(after_queue) :
      /\ Due(i, "start_progress")
      /\ after_queue' = Remove(after_queue, i)
      /\ progress_total' = Max(after_queue[i].arg, 1)
      /\ progress_current' = 0
      /\ UNCHANGED <<is_exporting, cancel_flag, pause_event, event_set, export_mode_var,
                     current_year, current_magazine_id, year_values, export_controls,
                     pause_button, cancel_button>>
      /\ UNCHANGED <<env, widgets, selection, paused_at, call, logins, access, caches, nruns,
                     w, ncancels, history>>

\* update_progress without min(self.progress_total, ...)
update_progress_unclamped ==
    \E i \in 1..Len(after_queue) :
      /\ Due(i, "update_progress")
      /\ after_queue' = Remove(after_queue, i)
      /\ progress_current' = IF progress_total <= 0 THEN progress_current
                             ELSE progress_current + after_queue[i].arg
      /\ UNCHANGED <<is_exporting, cancel_flag, pause_event, event_set, export_mode_var,
                     current_year, current_magazine_id, year_values, progress_total,
                     export_controls, pause_button, cancel_button>>
      /\ UNCHANGED <<env, widgets, selection, paused_at, call, logins, access, caches, nruns,
                     w, ncancels, history>>

update_progress ==
    \E i \in 1..Len(after_queue) :
      /\ Due(i, "update_progress")
      /\ after_queue' = Remove(after_queue, i)
      /\ progress_current' = IF progress_total <= 0 THEN progress_current
                             ELSE Min(progress_total, progress_current + after_queue[i].arg)
      /\ UNCHANGED <<is_exporting, cancel_flag, pause_event, event_set, export_mode_var,
                     current_year, current_magazine_id, year_values, progress_total,
                     export_controls, pause_button, cancel_button>>
      /\ UNCHANGED <<env, widgets, selection, paused_at, call, logins, access, caches, nruns,
                     w, ncancels, history>>

reset_progress ==
    \E i \in 1..Len(after_queue) :
      /\ Due(i, "reset_progress")
      /\ after_queue' = Remove(after_queue, i)
      /\ progress_total' = 1
      /\ progress_current' = 0
      /\ UNCHANGED <<is_exporting, cancel_flag, pause_event, event_set, export_mode_var,
                     current_year, current_magazine_id, year_values, export_controls,
                     pause_button, cancel_button>>
      /\ UNCHANGED <<env, widgets, selection, paused_at, call, logins, access, caches, nruns,
                     w, ncancels, history>>

\* a terminal handler that leaves finish_progress out
TerminalHandlerNoFinish(i) ==
    /\ is_exporting' = FALSE
    /\ export_controls' = "normal"
    /\ pause_button' = "disabled"
    /\ cancel_button' = "disabled"
    /\ issue_combo' = [issue_combo EXCEPT
                         !.state = IF issue_combo.values # << >> THEN "normal" ELSE "disabled"]
    /\ article_list' = [article_list EXCEPT !.state = "normal"]
    /\ after_queue' = Remove(after_queue, i)
    /\ terminals' = [terminals EXCEPT ![after_queue[i].run] = Append(@, after_queue[i].fn)]
    /\ UNCHANGED <<cancel_flag, pause_event, event_set, export_mode_var, current_year,
                   current_magazine_id, year_values, progress_total, progress_current>>
    /\ UNCHANGED <<env, selection, paused_at, call, logins, access, caches, nruns, w,
                   ncancels, written, write_calls, cancel_at, cancel_between, raised,
                   fetch_ok, fetch_err>>

\* the common body of export_success, export_failed and _finish_cancel:
\* is_exporting = False, disable_export_controls(False), finish_progress(text)
TerminalHandler(i) ==
    /\ is_exporting' = FALSE
    /\ export_controls' = "normal"
    /\ pause_button' = "disabled"
    /\ cancel_button' = "disabled"
    /\ issue_combo' = [issue_combo EXCEPT
                         !.state = IF issue_combo.values # << >> THEN "normal" ELSE "disabled"]
    /\ article_list' = [article_list EXCEPT !.state = "normal"]
    /\ after_queue' = Append(Remove(after_queue, i),
                             Callback("reset_progress", RESET_DELAY, after_queue[i].run, 0))
    /\ terminals' = [terminals EXCEPT ![after_queue[i].run] = Append(@, after_queue[i].fn)]
    /\ UNCHANGED <<cancel_flag, pause_event, event_set, export_mode_var, current_year,
                   current_magazine_id, year_values, progress_total, progress_current>>
    /\ UNCHANGED <<env, selection, paused_at, call, logins, access, caches, nruns, w,
                   ncancels, written, write_calls, cancel_at, cancel_between, raised,
                   fetch_ok, fetch_err>>

export_success == \E i \in 1..Len(after_queue) : Due(i, "export_success") /\ TerminalHandler(i)

export_failed == \E i \in 1..Len(after_queue) : Due(i, "export_failed") /\ TerminalHandler(i)

_finish_cancel == \E i \in 1..Len(after_queue) : Due(i, "_finish_cancel") /\ TerminalHandler(i)

\* ------------------------------------------------- export worker: control
\* which branch of worker_func the run takes
Branch(wr) ==
    IF wr.scope = "issue"
    THEN (IF wr.mode = "per_article" THEN "issue/per_article" ELSE "issue/collect")
    ELSE IF wr.scope = "year"
    THEN (IF wr.mode = "per_article" THEN "year/per_article"
          ELSE IF wr.mode \in {"per_year", "all_in_one"} THEN "year/collect"
          ELSE "year/per_issue")
    ELSE (IF wr.mode = "per_article" THEN "all/per_article"
          ELSE IF wr.mode = "all_in_one" THEN "all/all_in_one"
          ELSE IF wr.mode = "per_year" THEN "all/per_year"
          ELSE "all/per_issue")

PerArticle(wr) == wr.mode = "per_article"
PerIssue(wr) == Branch(wr) \in {"year/per_issue", "all/per_issue"}

\* the magazine the worker is at: `magazine` (issue scope) or `mag` (the loops)
CurMag(wr) == IF wr.scope = "issue" THEN wr.magazine ELSE wr.magazines[wr.mi]

\* a wait() that returns whether or not the event is set
GateIgnored(wr) == TRUE

\* pause_event.wait() returns
Gate(wr) == event_set[wr.pause_event]

\* after `for year in years` (all scope)
AfterYears(wr) ==
    IF Branch(wr) = "all/all_in_one" THEN [wr EXCEPT !.pc = "write_agg"]
    ELSE [wr EXCEPT !.pc = "terminal"]

\* top of `for year in years`: exhausted, or `if cancel_flag: break`
AtYearHead(wr) ==
    IF wr.cancel_flag \/ wr.yi > Len(wr.years) THEN AfterYears(wr)
    ELSE [wr EXCEPT !.pc = "year_head"]

\* self.log(...) called by the worker thread itself
Logged(wr) == [wr EXCEPT !.direct_ui = @ \cup {"log"}]

\* after `for mag in magazines`
AfterMags(wr) ==
    CASE Branch(wr) \in {"year/per_article", "year/per_issue"} -> [wr EXCEPT !.pc = "terminal"]
      [] Branch(wr) = "year/collect" -> [wr EXCEPT !.pc = "write_agg"]
      [] Branch(wr) = "all/per_article" -> AtYearHead([wr EXCEPT !.yi = @ + 1])
      [] Branch(wr) = "all/per_issue" -> AtYearHead(Logged([wr EXCEPT !.yi = @ + 1]))
      [] Branch(wr) = "all/all_in_one" ->
            AtYearHead([wr EXCEPT !.yi = @ + 1,
                                  !.all_articles = @ \o wr.year_all_articles,
                                  !.year_all_articles = << >>])
      [] Branch(wr) = "all/per_year" -> [wr EXCEPT !.pc = "write_year"]

\* top of `for mag in magazines`: exhausted, or `if cancel_flag: break`
AtMagHead(wr) ==
    IF wr.cancel_flag \/ wr.mi > Len(wr.magazines) THEN AfterMags(wr)
    ELSE [wr EXCEPT !.pc = "mag_head"]

\* after the `with ThreadPoolExecutor` block of one magazine
AfterPool(wr) ==
    LET done == [wr EXCEPT !.futs = << >>, !.yielded = {}, !.cur = 0, !.arts = << >>]
    IN CASE Branch(wr) = "issue/per_article" -> [done EXCEPT !.pc = "terminal"]
         [] Branch(wr) = "issue/collect" -> [done EXCEPT !.pc = "write_agg"]
         [] Branch(wr) = "year/collect" ->
               AtMagHead([done EXCEPT !.mi = @ + 1,
                                      !.all_articles = @ \o wr.mag_articles,
                                      !.mag_articles = << >>])
         [] OTHER -> AtMagHead([done EXCEPT !.mi = @ + 1])

\* executor.submit(self.get_article_detail, art["id"], art) for art in articles
Submitted(wr, articles) ==
    LET sub == [wr EXCEPT !.arts = articles,
                          !.futs = [i \in 1..Len(articles) |->
                                      [st |-> "queued", res |-> EmptyDict, alias |-> FALSE]],
                          !.yielded = {}, !.cur = 0, !.pc = "pool"]
    IN IF articles = << >> THEN AfterPool(sub) ELSE sub

\* the loop over as_completed(...) left after its first future
NextInPoolBreak(wr) == [wr EXCEPT !.pc = "pool_exit", !.cur = 0]

\* next iteration of `for future in as_completed(...)`
NextInPool(wr) ==
    IF wr.yielded = 1..Len(wr.futs) THEN [wr EXCEPT !.pc = "pool_exit", !.cur = 0]
    ELSE [wr EXCEPT !.pc = "pool", !.cur = 0]

\* pause_event = self.pause_event; cancel_flag = self.cancel_flag
Capture(r) ==
    /\ w[r].pc = "capture"
    /\ LET wr == [w[r] EXCEPT !.pause_event = pause_event, !.cancel_flag = cancel_flag]
           b == Branch(wr)
       IN w' = [w EXCEPT ![r] =
            CASE b \in {"issue/per_article", "issue/collect"} ->
                    [wr EXCEPT !.pc = "start_progress", !.total_items = Len(wr.arts)]
              [] b = "year/per_article" -> [wr EXCEPT !.pc = "precount_mag", !.mi = 1]
              [] b = "year/collect" -> AtMagHead([wr EXCEPT !.mi = 1])
              [] b = "year/per_issue" ->
                    [wr EXCEPT !.pc = "start_progress", !.total_items = Len(wr.magazines)]
              [] b \in {"all/per_article", "all/per_issue"} ->
                    [wr EXCEPT !.pc = "precount_year", !.yi = 1]
              [] b = "all/all_in_one" -> AtYearHead([wr EXCEPT !.yi = 1])
              [] b = "all/per_year" ->
                    [wr EXCEPT !.pc = "start_progress", !.total_items = Len(wr.years)]]
    /\ UNCHANGED <<env, widgets, selection, paused_at, call, logins, access, gui, caches,
                   after_queue, nruns, ncancels, history>>

\* the pre-count loops: get_magazines_for_year(year) for year in years
PrecountYear(r) ==
    /\ w[r].pc = "precount_year"
    /\ LET wr == w[r]
           year == wr.years[wr.yi]
       IN \E fail \in BOOLEAN :
            /\ fail => (year \notin DOMAIN magazines_by_year /\ faults_left > 0)
            /\ faults_left' = IF fail THEN faults_left - 1 ELSE faults_left
            /\ raised' = IF fail THEN [raised EXCEPT ![r] = @ \cup {"listing"}] ELSE raised
            /\ magazines_by_year' = IF fail THEN magazines_by_year
                                    ELSE MagazinesAfter(magazines_by_year, year)
            /\ w' = [w EXCEPT ![r] =
                 IF fail THEN [wr EXCEPT !.pc = "except"]
                 ELSE LET magazines == magazines_by_year'[year]
                          more == wr.yi < Len(wr.years)
                      IN IF PerArticle(wr) /\ magazines # << >>
                         THEN [wr EXCEPT !.pc = "precount_mag", !.magazines = magazines,
                                         !.mi = 1]
                         ELSE [wr EXCEPT !.pc = IF more THEN "precount_year"
                                                ELSE "start_progress",
                                         !.yi = IF more THEN @ + 1 ELSE 0,
                                         !.total_items = IF PerArticle(wr) THEN @
                                                         ELSE @ + Len(magazines)]]
    /\ access' = Called(access, "magazines", w[r].years[w[r].yi],
                       w[r].years[w[r].yi] \in DOMAIN magazines_by_year)
    /\ UNCHANGED <<site, runs_left, widgets, selection, paused_at, call, logins, gui,
                   articles_by_mag, article_details, after_queue, nruns, ncancels, written,
                   terminals, write_calls, cancel_at, cancel_between, fetch_ok, fetch_err>>

\* the pre-count loops: get_articles_for_magazine(mag["id"]) for mag in magazines
PrecountMag(r) ==
    /\ w[r].pc = "precount_mag"
    /\ LET wr == w[r]
           mag == wr.magazines[wr.mi]
       IN \E fail \in BOOLEAN :
            /\ fail => (mag.id \notin DOMAIN articles_by_mag /\ faults_left > 0)
            /\ faults_left' = IF fail THEN faults_left - 1 ELSE faults_left
            /\ raised' = IF fail THEN [raised EXCEPT ![r] = @ \cup {"listing"}] ELSE raised
            /\ articles_by_mag' = IF fail THEN articles_by_mag
                                  ELSE ArticlesAfter(articles_by_mag, mag.id)
            /\ w' = [w EXCEPT ![r] =
                 IF fail THEN [wr EXCEPT !.pc = "except"]
                 ELSE LET n == Len(articles_by_mag'[mag.id])
                          counted == [wr EXCEPT !.total_items = @ + n]
                      IN IF wr.mi < Len(wr.magazines)
                         THEN [counted EXCEPT !.mi = @ + 1]
                         ELSE IF wr.scope = "all" /\ wr.yi < Len(wr.years)
                         THEN [counted EXCEPT !.pc = "precount_year", !.yi = @ + 1,
                                              !.mi = 0, !.magazines = << >>]
                         ELSE [counted EXCEPT !.pc = "start_progress", !.mi = 0,
                                              !.yi = 0,
                                              !.magazines = IF wr.scope = "all" THEN << >>
                                                            ELSE @]]
    /\ access' = Called(access, "articles", w[r].magazines[w[r].mi].id,
                       w[r].magazines[w[r].mi].id \in DOMAIN articles_by_mag)
    /\ UNCHANGED <<site, runs_left, widgets, selection, paused_at, call, logins, gui,
                   magazines_by_year, article_details, after_queue, nruns, ncancels, written,
                   terminals, write_calls, cancel_at, cancel_between, fetch_ok, fetch_err>>

\* self.after(0, self.start_progress, total, text)
PostStartProgress(r) ==
    /\ w[r].pc = "start_progress"
    /\ after_queue' = Append(after_queue, Callback("start_progress", 0, r, w[r].total_items))
    /\ w' = [w EXCEPT ![r] =
         LET wr == [w[r] EXCEPT !.progress_started = TRUE]
         IN IF wr.scope = "issue" THEN [wr EXCEPT !.pc = "submit"]
            ELSE IF wr.scope = "year" THEN AtMagHead([wr EXCEPT !.mi = 1])
            ELSE AtYearHead([wr EXCEPT !.yi = 1])]
    /\ UNCHANGED <<env, widgets, selection, paused_at, call, logins, access, gui, caches,
                   nruns, ncancels, history>>

\* issue scope: the futures of the issue's articles are submitted
Submit(r) ==
    /\ w[r].pc = "submit"
    /\ w' = [w EXCEPT ![r] = Submitted(w[r], w[r].arts)]
    /\ UNCHANGED <<env, widgets, selection, paused_at, call, logins, access, gui, caches,
                   after_queue, nruns, ncancels, history>>

\* all scope, top of the year loop: pause_event.wait(); get_magazines_for_year(year)
YearHead(r) ==
    /\ w[r].pc = "year_head"
    /\ Gate(w[r])
    /\ LET wr == w[r]
           year == wr.years[wr.yi]
       IN \E fail \in BOOLEAN :
            /\ fail => (year \notin DOMAIN magazines_by_year /\ faults_left > 0)
            /\ faults_left' = IF fail THEN faults_left - 1 ELSE faults_left
            /\ raised' = IF fail THEN [raised EXCEPT ![r] = @ \cup {"listing"}] ELSE raised
            /\ magazines_by_year' = IF fail THEN magazines_by_year
                                    ELSE MagazinesAfter(magazines_by_year, year)
            /\ w' = [w EXCEPT ![r] =
                 IF fail THEN [wr EXCEPT !.pc = "except"]
                 ELSE LET magazines == magazines_by_year'[year]
                      IN AtMagHead([wr EXCEPT
                            !.magazines = magazines, !.mi = 1,
                            !.year_all_articles = << >>,
                            !.year_magazines = IF Branch(wr) = "all/all_in_one"
                                               THEN Append(@, <<year, magazines>>)
                                               ELSE @])]
    /\ access' = Called(access, "magazines", w[r].years[w[r].yi],
                       w[r].years[w[r].yi] \in DOMAIN magazines_by_year)
    /\ UNCHANGED <<site, runs_left, widgets, selection, paused_at, call, logins, gui,
                   articles_by_mag, article_details, after_queue, nruns, ncancels, written,
                   terminals, write_calls, cancel_at, cancel_between, fetch_ok, fetch_err>>

\* top of the magazine loop: pause_event.wait(); get_articles_for_magazine(mag["id"]);
\* then the futures are submitted, or collect_issue_payload starts on the list
MagHead(r) ==
    /\ w[r].pc = "mag_head"
    /\ Gate(w[r])
    /\ LET wr == w[r]
           mag == wr.magazines[wr.mi]
       IN \E fail \in BOOLEAN :
            /\ fail => (mag.id \notin DOMAIN articles_by_mag /\ faults_left > 0)
            /\ faults_left' = IF fail THEN faults_left - 1 ELSE faults_left
            /\ raised' = IF fail THEN [raised EXCEPT ![r] = @ \cup {"listing"}] ELSE raised
            /\ articles_by_mag' = IF fail THEN articles_by_mag
                                  ELSE ArticlesAfter(articles_by_mag, mag.id)
            /\ w' = [w EXCEPT ![r] =
                 IF fail THEN [wr EXCEPT !.pc = "except"]
                 ELSE LET articles == articles_by_mag'[mag.id]
                      IN IF PerIssue(wr)
                         THEN [wr EXCEPT !.arts = articles, !.ci = 1,
                                         !.mag_articles = << >>,
                                         !.pc = IF articles = << >> THEN "write_issue"
                                                ELSE "collect"]
                         ELSE Submitted(wr, articles)]
    /\ access' = Called(access, "articles", w[r].magazines[w[r].mi].id,
                       w[r].magazines[w[r].mi].id \in DOMAIN articles_by_mag)
    /\ UNCHANGED <<site, runs_left, widgets, selection, paused_at, call, logins, gui,
                   magazines_by_year, article_details, after_queue, nruns, ncancels, written,
                   terminals, write_calls, cancel_at, cancel_between, fetch_ok, fetch_err>>

\* ------------------------------------------------------- the fetch pool
Done(f) == f.st \in {"ok", "err"}
\* a pool in which no call is ever counted as running
RunningNone(wr) == {}

Running(wr) == {p \in 1..Len(wr.futs) : wr.futs[p].st = "running"}

\* another thread stored a new record for article_id: a result that was the
\* cached object is no longer the cached object
Unalias(wr, article_id) ==
    [wr EXCEPT !.futs = [p \in 1..Len(wr.futs) |->
        IF wr.futs[p].alias /\ wr.arts[p].id = article_id
        THEN [wr.futs[p] EXCEPT !.alias = FALSE] ELSE wr.futs[p]]]

\* a pool thread takes the next queued call of get_article_detail(art["id"], art)
\* and looks the article up in the cache
PoolBegin(r, p) ==
    /\ p \in 1..Len(w[r].futs)
    /\ w[r].futs[p].st = "queued"
    /\ \A q \in 1..(p - 1) : w[r].futs[q].st # "queued"
    /\ Cardinality(Running(w[r])) < MAX_WORKERS
    /\ LET art == w[r].arts[p]
           hit == art.id \in DOMAIN article_details
       IN /\ w' = [w EXCEPT ![r].futs[p] =
                 IF hit THEN [st |-> "ok", res |-> CachedDetail(article_details, art.id, art),
                              alias |-> FALSE]
                 ELSE [@ EXCEPT !.st = "running"]]
          /\ fetch_ok' = IF hit THEN [fetch_ok EXCEPT ![r] = @ \cup {art.id}] ELSE fetch_ok
    /\ access' = Called(access, "detail", w[r].arts[p].id,
                       w[r].arts[p].id \in DOMAIN article_details)
    /\ UNCHANGED <<env, widgets, selection, paused_at, call, logins, gui, caches, after_queue,
                   nruns, ncancels, written, terminals, write_calls, cancel_at,
                   cancel_between, raised, fetch_err>>

\* fetch_article_detail returns or raises; a returned record is enriched and stored
PoolFinish(r, p) ==
    /\ p \in 1..Len(w[r].futs)
    /\ w[r].futs[p].st = "running"
    /\ LET art == w[r].arts[p]
           detail == FetchedDetail(art.id, art)
       IN \E fail \in BOOLEAN :
            /\ fail => faults_left > 0
            /\ faults_left' = IF fail THEN faults_left - 1 ELSE faults_left
            /\ raised' = IF fail THEN [raised EXCEPT ![r] = @ \cup {"detail"}] ELSE raised
            /\ fetch_err' = IF fail THEN [fetch_err EXCEPT ![r] = @ \cup {art.id}]
                            ELSE fetch_err
            /\ fetch_ok' = IF fail THEN fetch_ok ELSE [fetch_ok EXCEPT ![r] = @ \cup {art.id}]
            /\ article_details' = IF fail THEN article_details
                                  ELSE Put(article_details, art.id, detail)
            /\ w' = IF fail THEN [w EXCEPT ![r].futs[p].st = "err"]
                    ELSE [x \in Runs |->
                            IF x = r
                            THEN [w[r] EXCEPT !.futs[p] =
                                    [st |-> "ok", res |-> detail, alias |-> TRUE]]
                            ELSE Unalias(w[x], art.id)]
    /\ UNCHANGED <<site, runs_left, widgets, selection, paused_at, call, logins, access, gui,
                   magazines_by_year, articles_by_mag, after_queue, nruns, ncancels, written,
                   terminals, write_calls, cancel_at, cancel_between>>

\* ------------------------------------------- export worker: the pool loop
\* `for future in as_completed(...)`: a finished future is yielded; then
\* `if cancel_flag: break`, else pause_event.wait()
PoolTake(r) ==
    /\ w[r].pc = "pool"
    /\ \E p \in 1..Len(w[r].futs) :
         /\ p \notin w[r].yielded
         /\ Done(w[r].futs[p])
         /\ IF w[r].cancel_flag
            THEN w' = [w EXCEPT ![r].pc = "pool_exit"]
            ELSE /\ Gate(w[r])
                 /\ w' = [w EXCEPT ![r].pc = "handle", ![r].cur = p,
                                    ![r].yielded = @ \cup {p}]
    /\ UNCHANGED <<env, widgets, selection, paused_at, call, logins, access, gui, caches,
                   after_queue, nruns, ncancels, history>>

\* art["magazine_meta"] = mag on the list record the future was submitted with
MarkArticle(cache, magazine_id, p, meta) ==
    IF magazine_id \in DOMAIN cache /\ p <= Len(cache[magazine_id])
    THEN [cache EXCEPT ![magazine_id][p] = Put(@, "magazine_meta", meta)]
    ELSE cache

\* detail["magazine_id"] = magazine["id"]; detail["magazine_meta"] = magazine
Tagged(detail, magazine) ==
    Put(Put(detail, "magazine_id", magazine.id), "magazine_meta", magazine.id)

\* the detail handed to write_article_separately in per_article mode
ArticleToWrite(wr, detail) ==
    IF wr.scope = "issue" THEN Tagged(detail, CurMag(wr)) ELSE detail

\* an `except Exception` branch that goes on with the next future and posts
\* no update_progress
AfterFailureUncounted(wr) == NextInPool(wr)

\* the `except Exception` branch of the per_article loop: after the log line,
\* self.after(0, self.update_progress, 1, text) as in the try branch
AfterFailure(wr) == [wr EXCEPT !.pc = "post_update"]

\* the body of the as_completed loop in per_article mode: future.result(), the
\* assignments to art and detail, write_article_separately; any exception is caught
HandleArticle(r) ==
    /\ w[r].pc = "handle"
    /\ PerArticle(w[r])
    /\ LET wr == w[r]
           f == wr.futs[wr.cur]
           mag == CurMag(wr)
           detail == ArticleToWrite(wr, f.res)
       IN IF f.st = "err"
          THEN /\ w' = [w EXCEPT ![r] = Logged(AfterFailure(wr))]
               /\ UNCHANGED <<caches, faults_left, written, write_calls, raised>>
          ELSE \E fail \in BOOLEAN :
                 /\ fail => faults_left > 0
                 /\ faults_left' = IF fail THEN faults_left - 1 ELSE faults_left
                 /\ raised' = IF fail THEN [raised EXCEPT ![r] = @ \cup {"write"}] ELSE raised
                 /\ articles_by_mag' = MarkArticle(articles_by_mag, mag.id, wr.cur, mag.id)
                 /\ article_details' =
                       IF f.alias /\ wr.scope = "issue"
                       THEN Put(article_details, detail.id, detail) ELSE article_details
                 /\ write_calls' = [write_calls EXCEPT ![r] = Append(@, detail.id)]
                 /\ written' = IF fail THEN written
                               ELSE [written EXCEPT ![r] =
                                       Append(@, write_article_separately(detail, mag))]
                 /\ w' = [w EXCEPT ![r].pc = "post_update",
                                    ![r].direct_ui = IF fail THEN @ \cup {"log"} ELSE @,
                                    ![r].arts[wr.cur] = Put(@, "magazine_meta", mag.id),
                                    ![r].futs[wr.cur].res = detail]
                 /\ UNCHANGED magazines_by_year
    /\ UNCHANGED <<site, runs_left, widgets, selection, paused_at, call, logins, access, gui,
                   after_queue, nruns, ncancels, terminals, cancel_at, cancel_between,
                   fetch_ok, fetch_err>>

\* the body of the as_completed loop in the collecting modes: future.result(),
\* then issue_articles / mag_articles / year_all_articles .append(detail)
HandleCollect(r) ==
    /\ w[r].pc = "handle"
    /\ ~PerArticle(w[r])
    /\ LET wr == w[r]
           f == wr.futs[wr.cur]
           posts == Branch(wr) # "all/per_year"
           next == IF posts THEN [wr EXCEPT !.pc = "post_update"] ELSE NextInPool(wr)
       IN w' = [w EXCEPT ![r] =
            IF f.st = "err" THEN Logged(next)
            ELSE IF wr.scope = "all"
            THEN [next EXCEPT !.year_all_articles = Append(@, f.res)]
            ELSE [next EXCEPT !.mag_articles = Append(@, f.res)]]
    /\ UNCHANGED <<env, widgets, selection, paused_at, call, logins, access, gui, caches,
                   after_queue, nruns, ncancels, history>>

\* self.after(0, self.update_progress, 1, text) inside the as_completed loop
PostUpdate(r) ==
    /\ w[r].pc = "post_update"
    /\ after_queue' = Append(after_queue, Callback("update_progress", 0, r, 1))
    /\ w' = [w EXCEPT ![r] = NextInPool(w[r])]
    /\ UNCHANGED <<env, widgets, selection, paused_at, call, logins, access, gui, caches,
                   nruns, ncancels, history>>

\* leaving the `with` block waits for every submitted future
PoolExit(r) ==
    /\ w[r].pc = "pool_exit"
    /\ \A p \in 1..Len(w[r].futs) : Done(w[r].futs[p])
    /\ w' = [w EXCEPT ![r] = AfterPool(w[r])]
    /\ UNCHANGED <<env, widgets, selection, paused_at, call, logins, access, gui, caches,
                   after_queue, nruns, ncancels, history>>

\* --------------------------------------- export worker: per_issue collecting
\* base = article.copy(); base["magazine_id"] = ...; base["magazine_meta"] = ...
PayloadBase(article, magazine) == Tagged(article, magazine)

\* one iteration of collect_issue_payload: get_article_detail(article["id"], base)
\* on the worker thread (an exception leaves worker_func's try block), then the
\* two assignments to the returned detail and result.append(detail)
collect_issue_payload(r) ==
    /\ w[r].pc = "collect"
    /\ LET wr == w[r]
           mag == CurMag(wr)
           article == wr.arts[wr.ci]
           base == PayloadBase(article, mag)
           hit == article.id \in DOMAIN article_details
           detail == Tagged(IF hit THEN CachedDetail(article_details, article.id, base)
                            ELSE FetchedDetail(article.id, base), mag)
       IN \E fail \in BOOLEAN :
            /\ fail => (~hit /\ faults_left > 0)
            /\ faults_left' = IF fail THEN faults_left - 1 ELSE faults_left
            /\ raised' = IF fail THEN [raised EXCEPT ![r] = @ \cup {"detail"}] ELSE raised
            /\ fetch_err' = IF fail THEN [fetch_err EXCEPT ![r] = @ \cup {article.id}]
                            ELSE fetch_err
            /\ fetch_ok' = IF fail THEN fetch_ok
                           ELSE [fetch_ok EXCEPT ![r] = @ \cup {article.id}]
            /\ article_details' = IF fail \/ hit THEN article_details
                                  ELSE Put(article_details, article.id, detail)
            /\ w' = IF fail THEN [w EXCEPT ![r].pc = "except"]
                    ELSE [x \in Runs |->
                            IF x = r
                            THEN [wr EXCEPT !.mag_articles = Append(@, detail),
                                            !.ci = @ + 1,
                                            !.pc = IF wr.ci < Len(wr.arts) THEN "collect"
                                                   ELSE "write_issue"]
                            ELSE IF hit THEN w[x] ELSE Unalias(w[x], article.id)]
    /\ access' = Called(access, "detail", w[r].arts[w[r].ci].id,
                       w[r].arts[w[r].ci].id \in DOMAIN article_details)
    /\ UNCHANGED <<site, runs_left, widgets, selection, paused_at, call, logins, gui,
                   magazines_by_year, articles_by_mag, after_queue, nruns, ncancels, written,
                   terminals, write_calls, cancel_at, cancel_between>>

\* per_issue mode: write_issue_markdown(mag, sorted(issue_articles, ...), ...)
WriteIssue(r) ==
    /\ w[r].pc = "write_issue"
    /\ LET wr == w[r]
           doc == write_issue_markdown(CurMag(wr), SortedByIndex(wr.mag_articles))
       IN \E fail \in BOOLEAN :
            /\ fail => faults_left > 0
            /\ faults_left' = IF fail THEN faults_left - 1 ELSE faults_left
            /\ raised' = IF fail THEN [raised EXCEPT ![r] = @ \cup {"write"}] ELSE raised
            /\ written' = IF fail THEN written ELSE [written EXCEPT ![r] = Append(@, doc)]
            /\ w' = [w EXCEPT ![r] =
                 IF fail THEN [wr EXCEPT !.pc = "except"]
                 ELSE [wr EXCEPT !.pc = "post_unit", !.mag_articles = << >>,
                                 !.arts = << >>, !.ci = 0]]
    /\ UNCHANGED <<site, runs_left, widgets, selection, paused_at, call, logins, access, gui,
                   caches, after_queue, nruns, ncancels, terminals, write_calls, cancel_at,
                   cancel_between, fetch_ok, fetch_err>>

\* all scope, per_year mode: write_year_markdown(year, magazines, year_all_articles)
WriteYear(r) ==
    /\ w[r].pc = "write_year"
    /\ LET wr == w[r]
           doc == write_year_markdown(wr.years[wr.yi], wr.magazines, wr.year_all_articles)
       IN \E fail \in BOOLEAN :
            /\ fail => faults_left > 0
            /\ faults_left' = IF fail THEN faults_left - 1 ELSE faults_left
            /\ raised' = IF fail THEN [raised EXCEPT ![r] = @ \cup {"write"}] ELSE raised
            /\ written' = IF fail THEN written ELSE [written EXCEPT ![r] = Append(@, doc)]
            /\ w' = [w EXCEPT ![r] =
                 IF fail THEN [wr EXCEPT !.pc = "except"]
                 ELSE [wr EXCEPT !.pc = "post_unit", !.year_all_articles = << >>]]
    /\ UNCHANGED <<site, runs_left, widgets, selection, paused_at, call, logins, access, gui,
                   caches, after_queue, nruns, ncancels, terminals, write_calls, cancel_at,
                   cancel_between, fetch_ok, fetch_err>>

\* self.after(0, self.update_progress, 1, text) after a unit's document
PostUnit(r) ==
    /\ w[r].pc = "post_unit"
    /\ after_queue' = Append(after_queue, Callback("update_progress", 0, r, 1))
    /\ w' = [w EXCEPT ![r] =
         IF PerIssue(w[r]) THEN AtMagHead([w[r] EXCEPT !.mi = @ + 1])
         ELSE AtYearHead([w[r] EXCEPT !.yi = @ + 1])]
    /\ UNCHANGED <<env, widgets, selection, paused_at, call, logins, access, gui, caches,
                   nruns, ncancels, history>>

\* the document written after the collection loop
AggregateDoc(wr) ==
    CASE Branch(wr) = "issue/collect" ->
            write_issue_markdown(wr.magazine, SortedByIndex(wr.mag_articles))
      [] Branch(wr) = "year/collect" ->
            write_year_markdown(wr.year, wr.magazines, wr.all_articles)
      [] OTHER -> write_all_markdown(wr.years, wr.year_magazines, wr.all_articles)

WriteAggregate(r) ==
    /\ w[r].pc = "write_agg"
    /\ \E fail \in BOOLEAN :
         /\ fail => faults_left > 0
         /\ faults_left' = IF fail THEN faults_left - 1 ELSE faults_left
         /\ raised' = IF fail THEN [raised EXCEPT ![r] = @ \cup {"write"}] ELSE raised
         /\ written' = IF fail THEN written
                       ELSE [written EXCEPT ![r] = Append(@, AggregateDoc(w[r]))]
         /\ w' = [w EXCEPT ![r].pc = IF fail THEN "except" ELSE "terminal"]
    /\ UNCHANGED <<site, runs_left, widgets, selection, paused_at, call, logins, access, gui,
                   caches, after_queue, nruns, ncancels, terminals, write_calls, cancel_at,
                   cancel_between, fetch_ok, fetch_err>>

\* the worker thread ends; its locals are gone
Ended(wr, fn) ==
    [IdleWorker EXCEPT !.pc = "done", !.scope = wr.scope, !.mode = wr.mode,
                       !.year = wr.year, !.magazine = wr.magazine,
                       !.cancel_flag = wr.cancel_flag, !.pause_event = wr.pause_event,
                       !.posted = fn, !.progress_started = wr.progress_started,
                       !.direct_ui = wr.direct_ui]

\* end of the try block: export_success, or _finish_cancel `if cancel_flag`
TerminalReport(wr) == IF wr.cancel_flag THEN "_finish_cancel" ELSE "export_success"

\* an `except Exception` handler that reports like the end of the try block
ExceptReportAsSuccess(wr) == IF wr.cancel_flag THEN "_finish_cancel" ELSE "export_success"

\* `except Exception`: export_failed, or _finish_cancel `if cancel_flag`
ExceptReport(wr) == IF wr.cancel_flag THEN "_finish_cancel" ELSE "export_failed"

\* a worker that ends without posting a terminal handler
PostTerminalNoReport(r) ==
    /\ w[r].pc = "terminal"
    /\ w' = [w EXCEPT ![r] = Ended(w[r], "")]
    /\ UNCHANGED <<env, widgets, selection, paused_at, call, logins, access, gui, caches,
                   after_queue, nruns, ncancels, history>>

PostTerminal(r) ==
    /\ w[r].pc = "terminal"
    /\ after_queue' = Append(after_queue, Callback(TerminalReport(w[r]), 0, r, 0))
    /\ w' = [w EXCEPT ![r] = Ended(w[r], TerminalReport(w[r]))]
    /\ UNCHANGED <<env, widgets, selection, paused_at, call, logins, access, gui, caches,
                   nruns, ncancels, history>>

PostExcept(r) ==
    /\ w[r].pc = "except"
    /\ after_queue' = Append(after_queue, Callback(ExceptReport(w[r]), 0, r, 0))
    /\ w' = [w EXCEPT ![r] = Ended(w[r], ExceptReport(w[r]))]
    /\ UNCHANGED <<env, widgets, selection, paused_at, call, logins, access, gui, caches,
                   nruns, ncancels, history>>

\* ------------------------------------------------------- specification
Worker(r) ==
    \/ Capture(r) \/ PrecountYear(r) \/ PrecountMag(r) \/ PostStartProgress(r)
    \/ Submit(r) \/ YearHead(r) \/ MagHead(r)
    \/ PoolTake(r) \/ HandleArticle(r) \/ HandleCollect(r) \/ PostUpdate(r) \/ PoolExit(r)
    \/ collect_issue_payload(r) \/ WriteIssue(r) \/ WriteYear(r) \/ PostUnit(r)
    \/ WriteAggregate(r) \/ PostTerminal(r) \/ PostExcept(r)

\* the steps of export_selected_issue's worker_func when nothing raises
IssueWorker(r) ==
    \/ Capture(r) \/ PostStartProgress(r) \/ Submit(r)
    \/ PoolTake(r) \/ HandleArticle(r) \/ HandleCollect(r) \/ PostUpdate(r) \/ PoolExit(r)
    \/ WriteAggregate(r) \/ PostTerminal(r)

Handlers ==
    \/ toggle_pause
    \/ cancel_export
    \/ start_progress
    \/ update_progress
    \/ reset_progress
    \/ export_success
    \/ _finish_cancel

Next ==
    \/ \E mode \in Modes : export_selected_issue(mode)
    \/ \E mode \in Modes : export_selected_year(mode)
    \/ \E mode \in Modes : export_all(mode)
    \/ Handlers
    \/ export_failed
    \/ \E r \in Runs : Worker(r)
    \/ \E r \in Runs : \E p \in 1..Len(w[r].futs) : PoolBegin(r, p)
    \/ \E r \in Runs : \E p \in 1..Len(w[r].futs) : PoolFinish(r, p)

\* the user exports the selected issue, again and again, and no call raises
NextRuns ==
    \/ \E mode \in Modes : export_selected_issue(mode)
    \/ Handlers
    \/ \E r \in Runs : IssueWorker(r)
    \/ \E r \in Runs : \E p \in 1..Len(w[r].futs) : PoolBegin(r, p)
    \/ \E r \in Runs : \E p \in 1..Len(w[r].futs) : PoolFinish(r, p)

\* ------------------------------------------------ login and the accessors
\* login_and_load and its worker thread: crawler.login() and fetch_years()
\* return or raise, and the outcome is posted with after(0, ...)
login_and_load ==
    /\ logins.started < MaxLogins
    /\ \E fail \in BOOLEAN :
         /\ fail => faults_left > 0
         /\ faults_left' = IF fail THEN faults_left - 1 ELSE faults_left
         /\ after_queue' = Append(after_queue,
                IF fail THEN Callback("on_login_failed", 0, 0, << >>)
                ELSE Callback("on_login_success", 0, 0, fetch_years))
    /\ logins' = [logins EXCEPT !.started = @ + 1]
    /\ issue_combo' = IF is_exporting THEN issue_combo ELSE Loading(issue_combo, TRUE)
    /\ article_list' = IF is_exporting THEN article_list
                       ELSE [article_list EXCEPT !.state = "disabled"]
    /\ UNCHANGED <<site, runs_left, selection, paused_at, call, access, gui, caches, nruns, w,
                   ncancels, history>>

\* on_login_success that forgets article_details.clear()
on_login_success_keeping_details ==
    \E i \in 1..Len(after_queue) :
      /\ Due(i, "on_login_success")
      /\ after_queue' = Remove(after_queue, i)
      /\ magazines_by_year' = EmptyDict
      /\ articles_by_mag' = EmptyDict
      /\ year_values' = after_queue[i].arg
      /\ logins' = [logins EXCEPT !.ok = @ + 1]
      /\ issue_combo' = [state |-> "disabled", values |-> << >>]
      /\ article_list' = Deleted(IF is_exporting THEN article_list
                                 ELSE [article_list EXCEPT !.state = "normal"])
      /\ UNCHANGED <<is_exporting, cancel_flag, pause_event, event_set, export_mode_var,
                     current_year, current_magazine_id, progress_total, progress_current,
                     export_controls, pause_button, cancel_button>>
      /\ UNCHANGED <<env, selection, paused_at, call, access, article_details, nruns, w,
                     ncancels, history>>

\* the three caches are cleared and the year selector is filled
on_login_success ==
    \E i \in 1..Len(after_queue) :
      /\ Due(i, "on_login_success")
      /\ after_queue' = Remove(after_queue, i)
      /\ magazines_by_year' = EmptyDict
      /\ articles_by_mag' = EmptyDict
      /\ article_details' = EmptyDict
      /\ year_values' = after_queue[i].arg
      /\ logins' = [logins EXCEPT !.ok = @ + 1]
      /\ issue_combo' = [state |-> "disabled", values |-> << >>]
      /\ article_list' = Deleted(IF is_exporting THEN article_list
                                 ELSE [article_list EXCEPT !.state = "normal"])
      /\ UNCHANGED <<is_exporting, cancel_flag, pause_event, event_set, export_mode_var,
                     current_year, current_magazine_id, progress_total, progress_current,
                     export_controls, pause_button, cancel_button>>
      /\ UNCHANGED <<env, selection, paused_at, call, access, nruns, w, ncancels, history>>

\* set_loading(False), a log line and a message box
on_login_failed ==
    \E i \in 1..Len(after_queue) :
      /\ Due(i, "on_login_failed")
      /\ after_queue' = Remove(after_queue, i)
      /\ logins' = [logins EXCEPT !.failed = @ + 1]
      /\ issue_combo' = IF is_exporting THEN issue_combo ELSE Loading(issue_combo, FALSE)
      /\ article_list' = IF is_exporting THEN article_list
                         ELSE [article_list EXCEPT !.state = "normal"]
      /\ UNCHANGED <<env, selection, paused_at, call, access, gui, caches, nruns, w, ncancels,
                     history>>

\* a call of get_magazines_for_year(year) that is not part of an export
get_magazines_for_year(year) ==
    /\ access[<<"magazines", year>>].calls < MaxCalls
    /\ \E fail \in BOOLEAN :
         /\ fail => (year \notin DOMAIN magazines_by_year /\ faults_left > 0)
         /\ faults_left' = IF fail THEN faults_left - 1 ELSE faults_left
         /\ magazines_by_year' = IF fail THEN AfterRaise(magazines_by_year, year)
                                 ELSE MagazinesAfter(magazines_by_year, year)
    /\ access' = Called(access, "magazines", year, year \in DOMAIN magazines_by_year)
    /\ UNCHANGED <<site, runs_left, widgets, selection, paused_at, call, logins, gui,
                   articles_by_mag, article_details, after_queue, nruns, w, ncancels,
                   history>>

\* a call of get_articles_for_magazine(magazine_id) that is not part of an export
get_articles_for_magazine(magazine_id) ==
    /\ access[<<"articles", magazine_id>>].calls < MaxCalls
    /\ \E fail \in BOOLEAN :
         /\ fail => (magazine_id \notin DOMAIN articles_by_mag /\ faults_left > 0)
         /\ faults_left' = IF fail THEN faults_left - 1 ELSE faults_left
         /\ articles_by_mag' = IF fail THEN AfterRaise(articles_by_mag, magazine_id)
                               ELSE ArticlesAfter(articles_by_mag, magazine_id)
    /\ access' = Called(access, "articles", magazine_id,
                        magazine_id \in DOMAIN articles_by_mag)
    /\ UNCHANGED <<site, runs_left, widgets, selection, paused_at, call, logins, gui,
                   magazines_by_year, article_details, after_queue, nruns, w, ncancels,
                   history>>

\* the base records callers pass for article a: None, the record of the article
\* listing, and the base of collect_issue_payload
Bases(a) ==
    {EmptyDict, ArtRecord(a), PayloadBase(ArtRecord(a), MagRecord(MagOfArt(a)))}

\* a cached path that enriches the cached record itself, without .copy()
AfterHitInPlace(cache, article_id, base) ==
    Put(cache, article_id, CachedDetail(cache, article_id, base))

\* article_details after the cached path of get_article_detail: the record is
\* copied, `detail = self.article_details[article_id].copy()`, and only the
\* copy is enriched and returned
AfterHit(cache, article_id, base) == cache

\* a call of get_article_detail(article_id, base) that is not part of an export:
\* a hit returns an enriched copy and stores nothing
get_article_detail(article_id, base) ==
    /\ access[<<"detail", article_id>>].calls < MaxCalls
    /\ LET hit == article_id \in DOMAIN article_details
       IN \E fail \in BOOLEAN :
            /\ fail => (~hit /\ faults_left > 0)
            /\ faults_left' = IF fail THEN faults_left - 1 ELSE faults_left
            /\ article_details' =
                  IF fail THEN AfterRaise(article_details, article_id)
                  ELSE IF hit THEN AfterHit(article_details, article_id, base)
                  ELSE Put(article_details, article_id, FetchedDetail(article_id, base))
            /\ w' = IF fail \/ hit THEN w
                    ELSE [x \in Runs |-> Unalias(w[x], article_id)]
    /\ access' = Called(access, "detail", article_id, article_id \in DOMAIN article_details)
    /\ UNCHANGED <<site, runs_left, widgets, selection, paused_at, call, logins, gui,
                   magazines_by_year, articles_by_mag, after_queue, nruns, ncancels, history>>

\* the steps of export_selected_year's worker_func when nothing raises and the
\* user does not cancel
YearWorker(r) ==
    \/ Capture(r) \/ PrecountMag(r) \/ PostStartProgress(r) \/ MagHead(r)
    \/ PoolTake(r) \/ HandleArticle(r) \/ HandleCollect(r) \/ PostUpdate(r) \/ PoolExit(r)
    \/ collect_issue_payload(r) \/ WriteIssue(r) \/ PostUnit(r)
    \/ WriteAggregate(r) \/ PostTerminal(r)

\* the user exports the selected year once and lets the export run
NextPool ==
    \/ \E mode \in Modes : export_selected_year(mode)
    \/ start_progress
    \/ update_progress
    \/ reset_progress
    \/ export_success
    \/ \E r \in Runs : YearWorker(r)
    \/ \E r \in Runs : \E p \in 1..Len(w[r].futs) : PoolBegin(r, p)
    \/ \E r \in Runs : \E p \in 1..Len(w[r].futs) : PoolFinish(r, p)

\* the user logs in again and again, and the accessors are called in sequence
NextCache ==
    \/ login_and_load
    \/ on_login_success
    \/ on_login_failed
    \/ \E year \in Range(year_values) : get_magazines_for_year(year)
    \/ \E magazine_id \in Mags : get_articles_for_magazine(magazine_id)
    \/ \E article_id \in Arts : \E base \in Bases(article_id) :
          get_article_detail(article_id, base)

\* ------------------------------------------------- the selection handlers
\* what a selection handler finds when it is invoked
Snapshot ==
    <<magazines_by_year, articles_by_mag, article_details, current_year,
      current_magazine_id, issue_combo, article_list>>

\* the selectors accept a choice: no export is running (disable_export_controls
\* disables them) and the listing chosen last has been answered
MaySelect == ~is_exporting /\ selection.pc \notin {"fetching", "posted"}

\* populate_issues(magazines)
PopulateIssues(magazines) ==
    IF magazines = << >>
    THEN /\ issue_combo' = [state |-> "disabled", values |-> << >>]
         /\ article_list' = article_list
    ELSE /\ issue_combo' = [state |-> "readonly", values |-> Ids(magazines)]
         /\ article_list' = Deleted(article_list)

\* populate_articles(articles): the list is emptied and filled in index order
PopulateArticles(articles) ==
    article_list' = IF article_list.state = "disabled" THEN article_list
                    ELSE [article_list EXCEPT !.items = Ids(SortedByIndex(articles))]

\* on_year_selected: the user picks `year` in the year selector
on_year_selected(year) ==
    /\ MaySelect
    /\ current_year' = year
    /\ IF year \in DOMAIN magazines_by_year
       THEN /\ PopulateIssues(magazines_by_year[year])
            /\ selection' = [pc |-> "shown", kind |-> "year", key |-> year,
                             before |-> Snapshot, login |-> logins.ok]
       ELSE /\ issue_combo' = [issue_combo EXCEPT !.state = "disabled"]
            /\ article_list' = Deleted(article_list)
            /\ selection' = [pc |-> "fetching", kind |-> "year", key |-> year,
                             before |-> Snapshot, login |-> logins.ok]
    /\ UNCHANGED <<env, paused_at, call, logins, access, is_exporting, cancel_flag,
                   pause_event, event_set, export_mode_var, current_magazine_id,
                   year_values, progress_total, progress_current, export_controls,
                   pause_button, cancel_button, caches, after_queue, nruns, w, ncancels,
                   history>>

\* the worker thread of on_year_selected: fetch_magazines raises or returns; an
\* empty listing is reported like a failure, any other is stored and shown
on_year_selected_worker ==
    /\ selection.pc = "fetching"
    /\ selection.kind = "year"
    /\ \E fail \in BOOLEAN :
         /\ fail => faults_left > 0
         /\ faults_left' = IF fail THEN faults_left - 1 ELSE faults_left
         /\ LET magazines == fetch_magazines(selection.key)
            IN IF fail \/ magazines = << >>
               THEN /\ after_queue' = Append(after_queue,
                                             Callback("on_year_failed", 0, 0, << >>))
                    /\ UNCHANGED magazines_by_year
               ELSE /\ after_queue' = Append(after_queue,
                                             Callback("populate_issues", 0, 0, magazines))
                    /\ magazines_by_year' = Put(magazines_by_year, selection.key, magazines)
    /\ selection' = [selection EXCEPT !.pc = "posted"]
    /\ UNCHANGED <<site, runs_left, widgets, paused_at, call, logins, access, gui,
                   articles_by_mag, article_details, nruns, w, ncancels, history>>

\* on_year_failed: a log line and a message box
on_year_failed ==
    \E i \in 1..Len(after_queue) :
      /\ Due(i, "on_year_failed")
      /\ after_queue' = Remove(after_queue, i)
      /\ selection' = [selection EXCEPT !.pc = "failed"]
      /\ UNCHANGED <<env, widgets, paused_at, call, logins, access, gui, caches, nruns, w,
                     ncancels, history>>

\* populate_issues as the callback of a listing that was fetched
populate_issues ==
    \E i \in 1..Len(after_queue) :
      /\ Due(i, "populate_issues")
      /\ after_queue' = Remove(after_queue, i)
      /\ PopulateIssues(after_queue[i].arg)
      /\ selection' = [selection EXCEPT !.pc = "shown"]
      /\ UNCHANGED <<env, paused_at, call, logins, access, gui, caches, nruns, w, ncancels,
                     history>>

\* on_issue_selected: the user picks the entry of `magazine_id` in the issue
\* selector
on_issue_selected(magazine_id) ==
    /\ MaySelect
    /\ issue_combo.state # "disabled"
    /\ magazine_id \in Range(issue_combo.values)
    /\ current_magazine_id' = magazine_id
    /\ IF magazine_id \in DOMAIN articles_by_mag
       THEN /\ PopulateArticles(articles_by_mag[magazine_id])
            /\ selection' = [pc |-> "shown", kind |-> "issue", key |-> magazine_id,
                             before |-> Snapshot, login |-> logins.ok]
       ELSE /\ article_list' = Deleted(article_list)
            /\ selection' = [pc |-> "fetching", kind |-> "issue", key |-> magazine_id,
                             before |-> Snapshot, login |-> logins.ok]
    /\ UNCHANGED <<env, paused_at, call, logins, access, is_exporting, cancel_flag,
                   pause_event, event_set, export_mode_var, current_year, issue_combo,
                   year_values, progress_total, progress_current, export_controls,
                   pause_button, cancel_button, caches, after_queue, nruns, w, ncancels,
                   history>>

\* the worker thread of on_issue_selected
on_issue_selected_worker ==
    /\ selection.pc = "fetching"
    /\ selection.kind = "issue"
    /\ \E fail \in BOOLEAN :
         /\ fail => faults_left > 0
         /\ faults_left' = IF fail THEN faults_left - 1 ELSE faults_left
         /\ LET articles == fetch_articles(selection.key)
            IN IF fail \/ articles = << >>
               THEN /\ after_queue' = Append(after_queue,
                                             Callback("on_issue_failed", 0, 0, << >>))
                    /\ UNCHANGED articles_by_mag
               ELSE /\ after_queue' = Append(after_queue,
                                             Callback("populate_articles", 0, 0, articles))
                    /\ articles_by_mag' = Put(articles_by_mag, selection.key, articles)
    /\ selection' = [selection EXCEPT !.pc = "posted"]
    /\ UNCHANGED <<site, runs_left, widgets, paused_at, call, logins, access, gui,
                   magazines_by_year, article_details, nruns, w, ncancels, history>>

\* on_issue_failed: a log line and a message box
on_issue_failed ==
    \E i \in 1..Len(after_queue) :
      /\ Due(i, "on_issue_failed")
      /\ after_queue' = Remove(after_queue, i)
      /\ selection' = [selection EXCEPT !.pc = "failed"]
      /\ UNCHANGED <<env, widgets, paused_at, call, logins, access, gui, caches, nruns, w,
                     ncancels, history>>

\* populate_articles as the callback of a listing that was fetched
populate_articles ==
    \E i \in 1..Len(after_queue) :
      /\ Due(i, "populate_articles")
      /\ after_queue' = Remove(after_queue, i)
      /\ PopulateArticles(after_queue[i].arg)
      /\ selection' = [selection EXCEPT !.pc = "shown"]
      /\ UNCHANGED <<env, paused_at, call, logins, access, gui, caches, issue_combo, nruns,
                     w, ncancels, history>>

\* a session in which the user only browses: years and issues are selected one
\* after the other, and up to MaxFaults listings fail to load
InitBrowse ==
    /\ site = [years |-> NumYears, mags |-> NumMags, arts |-> NumArts,
               list_fields |-> {}, detail_fields |-> {}]
    /\ runs_left = 0
    /\ faults_left = MaxFaults
    /\ Fresh
    /\ LoggedIn

NextBrowse ==
    \/ \E year \in Range(year_values) : on_year_selected(year)
    \/ on_year_selected_worker
    \/ on_year_failed
    \/ populate_issues
    \/ \E magazine_id \in Mags : on_issue_selected(magazine_id)
    \/ on_issue_selected_worker
    \/ on_issue_failed
    \/ populate_articles

SpecBrowse == InitBrowse /\ [][NextBrowse]_vars

\* a session in which the user browses and clicks the login / refresh button,
\* which is never disabled
NextRefresh ==
    \/ \E year \in Range(year_values) : on_year_selected(year)
    \/ on_year_selected_worker
    \/ on_year_failed
    \/ populate_issues
    \/ \E magazine_id \in Mags : on_issue_selected(magazine_id)
    \/ on_issue_selected_worker
    \/ on_issue_failed
    \/ populate_articles
    \/ login_and_load
    \/ on_login_success
    \/ on_login_failed

SpecRefresh == InitBrowse /\ [][NextRefresh]_vars

\* a session in which the user starts one export on a site of one year of
\* PauseMags magazines, and pauses and resumes it
InitPause ==
    /\ site = [years |-> 1, mags |-> PauseMags, arts |-> PauseMags,
               list_fields |-> {}, detail_fields |-> {}]
    /\ runs_left = 1
    /\ faults_left = MaxFaults
    /\ Fresh
    /\ Selected

\* ------------------------------------------------- the progress bar alone
\* self.after(0, self.start_progress, total, text), self.after(0,
\* self.update_progress, 1, text) and finish_progress(text), called in any order;
\* the callbacks run as Tk takes them off the queue
after_start_progress(total) ==
    /\ Len(after_queue) < MaxPosted
    /\ after_queue' = Append(after_queue, Callback("start_progress", 0, 0, total))
    /\ UNCHANGED <<env, widgets, selection, paused_at, call, logins, access, gui, caches,
                   nruns, w, ncancels, history>>

after_update_progress ==
    /\ Len(after_queue) < MaxPosted
    /\ after_queue' = Append(after_queue, Callback("update_progress", 0, 0, 1))
    /\ UNCHANGED <<env, widgets, selection, paused_at, call, logins, access, gui, caches,
                   nruns, w, ncancels, history>>

\* finish_progress(text): the bar is filled and reset_progress is scheduled;
\* progress_total and progress_current are not assigned
finish_progress ==
    /\ Len(after_queue) < MaxPosted
    /\ after_queue' = Append(after_queue, Callback("reset_progress", RESET_DELAY, 0, 0))
    /\ UNCHANGED <<env, widgets, selection, paused_at, call, logins, access, gui, caches,
                   nruns, w, ncancels, history>>

InitProgress ==
    /\ site = [years |-> 1, mags |-> 1, arts |-> 1, list_fields |-> {}, detail_fields |-> {}]
    /\ runs_left = 0
    /\ faults_left = 0
    /\ Fresh
    /\ LoggedIn

NextProgress ==
    \/ \E total \in 0..MaxTotal : after_start_progress(total)
    \/ after_update_progress
    \/ finish_progress
    \/ start_progress
    \/ update_progress
    \/ reset_progress

SpecProgress == InitProgress /\ [][NextProgress]_vars

\* ------------------------------------------- the functions of export.py
\* Python values of an `index` field: an int, a str that is not a number (the
\* v-th in lexicographic order), or None / no such key
IntIndex(n) == [t |-> "int", v |-> n]
StrIndex(n) == [t |-> "str", v |-> n]
NoIndex == [t |-> "none", v |-> 0]
IndexValues ==
    {NoIndex} \cup {IntIndex(n) : n \in 0..MaxIndex} \cup {StrIndex(n) : n \in 1..MaxIndex}

\* key=lambda x: x.get("index") or 0 -- None and 0 give the int 0, any other
\* value is its own key
SortKey(x) == IF x.index.t = "none" \/ x.index = IntIndex(0) THEN IntIndex(0) ELSE x.index

\* sorted(articles, key=...): Python 3 raises TypeError when it compares an
\* int with a str, which it must when both occur among the keys
sorted_by_index(articles) ==
    LET keys == [i \in 1..Len(articles) |-> SortKey(articles[i])]
    IN IF \E i, j \in 1..Len(articles) : keys[i].t = "int" /\ keys[j].t = "str"
       THEN [raised |-> "TypeError", value |-> << >>]
       ELSE [raised |-> "", value |-> SortByKeys(articles, [i \in 1..Len(keys) |-> keys[i].v])]

\* the article lists handed to sorted(): up to MaxList articles
RECURSIVE SeqsUpTo(_, _)
SeqsUpTo(S, n) ==
    IF n = 0 THEN {<< >>}
    ELSE LET shorter == SeqsUpTo(S, n - 1)
         IN shorter \cup {Append(q, x) : q \in {t \in shorter : Len(t) = n - 1}, x \in S}

ArticleLists == SeqsUpTo({[index |-> v] : v \in IndexValues}, MaxList)

\* a function of export.py is called with `input`
Called1(fn, input) == [fn |-> fn, pc |-> "called", in |-> input, out |-> << >>]

\* sorted(articles, key=lambda x: x.get("index") or 0) returns or raises
call_sorted ==
    /\ call.fn = "sorted"
    /\ call.pc = "called"
    /\ call' = [call EXCEPT !.pc = "returned", !.out = sorted_by_index(call.in)]
    /\ UNCHANGED session

\* texts are sequences of characters. The characters of the texts cleaned: the
\* angle brackets, and those the character references &lt; &lt &ll; are
\* written with
Chars == {"<", ">", "&", "l", "t", ";"}
Texts == SeqsUpTo(Chars, MaxText)

\* the first position after i at which s holds c, 0 if there is none
FirstAfter(s, i, c) ==
    LET J == {j \in (i + 1)..Len(s) : s[j] = c}
    IN IF J = {} THEN 0 ELSE CHOOSE j \in J : \A k \in J : j <= k

\* re.sub(r"<[^>]+>", "", value), from position i on: a "<" with its next ">"
\* is removed when at least one character lies between them
RECURSIVE strip_tags(_, _)
strip_tags(s, i) ==
    IF i > Len(s) THEN << >>
    ELSE IF s[i] = "<" /\ FirstAfter(s, i, ">") >= i + 2
         THEN strip_tags(s, FirstAfter(s, i, ">") + 1)
         ELSE <<s[i]>> \o strip_tags(s, i + 1)

\* html.unescape's replacement of "&" + name: the name itself when html5 has
\* it ("lt", "lt;" and "ll;" are the names written with these characters), else
\* its longest proper prefix of two or more characters that html5 has, else
\* the text unchanged. "much-less" stands for the character U+226A
CharRef(name) ==
    IF name \in {<<"l", "t">>, <<"l", "t", ";">>} THEN <<"<">>
    ELSE IF name = <<"l", "l", ";">> THEN <<"much-less">>
    ELSE IF Len(name) >= 3 /\ SubSeq(name, 1, 2) = <<"l", "t">>
         THEN <<"<">> \o SubSeq(name, 3, Len(name))
         ELSE <<"&">> \o name

\* the characters html.unescape takes for a name: [^\t\n\f <&#;]
NameChars == {">", "l", "t", "much-less"}

\* the length of the run of name characters of s that starts at position i
RECURSIVE NameRun(_, _)
NameRun(s, i) ==
    IF i > Len(s) \/ s[i] \notin NameChars THEN 0 ELSE 1 + NameRun(s, i + 1)

\* html.unescape(value), from position i on: &name and &name; are replaced
\* from left to right, and what was put in is not scanned again
RECURSIVE unescape(_, _)
unescape(s, i) ==
    IF i > Len(s) THEN << >>
    ELSE LET run == NameRun(s, i + 1)
             semi == i + run + 1 <= Len(s) /\ s[i + run + 1] = ";"
             last == i + run + (IF semi THEN 1 ELSE 0)
         IN IF s[i] = "&" /\ run > 0
            THEN CharRef(SubSeq(s, i + 1, last)) \o unescape(s, last + 1)
            ELSE <<s[i]>> \o unescape(s, i + 1)

\* clean_html(text). Of its steps, those that act on texts of these characters
\* are the removal of tags and, after it, the decoding of character
\* references; the other replacements need a character the texts do not hold
\* (a letter of br, p, li, script, style or img, "/", "%" or a quote), and
\* without blanks and line breaks the final trimming changes nothing
clean_html(text) == IF text = << >> THEN << >> ELSE unescape(strip_tags(text, 1), 1)

call_clean_html ==
    /\ call.fn = "clean_html"
    /\ call.pc = "called"
    /\ call' = [call EXCEPT !.pc = "returned", !.out = clean_html(call.in)]
    /\ UNCHANGED session

\* HTML handed to extract_images, as a sequence of pieces of text none of which
\* the pattern can match in part: "<img", " src=", " alt=", "q" (a quote), ">"
\* and the words "a", "b", "x". A fragment is one of
\*   quoted     <img src="u">              alt_first  <img alt="x" src="u">
\*   no_src     <img alt="x">              unquoted   <img src=u>
\*   empty_src  <img src="">               text       u
FragmentKinds == {"quoted", "alt_first", "no_src", "unquoted", "empty_src", "text"}
Fragments == [kind : FragmentKinds, url : {"a", "b"}]

Pieces(f) ==
    CASE f.kind = "quoted" -> <<"<img", " src=", "q", f.url, "q", ">">>
      [] f.kind = "alt_first" -> <<"<img", " alt=", "q", "x", "q", " src=", "q", f.url, "q", ">">>
      [] f.kind = "no_src" -> <<"<img", " alt=", "q", "x", "q", ">">>
      [] f.kind = "unquoted" -> <<"<img", " src=", f.url, ">">>
      [] f.kind = "empty_src" -> <<"<img", " src=", "q", "q", ">">>
      [] OTHER -> <<f.url>>

Html(fragments) == Concat([i \in 1..Len(fragments) |-> Pieces(fragments[i])])

\* the positions k of a " src=" at which <img\b[^>]*src=["']([^"']+)["'][^>]*>
\* matches from the "<img" at i: no ">" between i and k, a quote after it, at
\* least one piece before the next quote, and a ">" after that quote
SrcMatches(s, i) ==
    {k \in (i + 1)..Len(s) :
        /\ s[k] = " src="
        /\ FirstAfter(s, i, ">") > k
        /\ k + 1 <= Len(s) /\ s[k + 1] = "q"
        /\ FirstAfter(s, k + 1, "q") >= k + 3
        /\ FirstAfter(s, FirstAfter(s, k + 1, "q"), ">") # 0}

\* re.search(r'alt=["']([^"']*)["']', match.group(0)) in the pieces lo..hi
AltText(s, lo, hi) ==
    LET A == {k \in lo..hi : s[k] = " alt=" /\ k + 1 <= hi /\ s[k + 1] = "q"
                             /\ FirstAfter(s, k + 1, "q") \in (k + 2)..hi}
    IN IF A = {} THEN << >>
       ELSE LET k == CHOOSE x \in A : \A y \in A : x <= y
            IN SubSeq(s, k + 2, FirstAfter(s, k + 1, "q") - 1)

\* the entry of the match from i: [^>]* is greedy, so the last " src=" that
\* matches is taken; the url is what lies between its two quotes
ImageAt(s, i) ==
    LET k == CHOOSE x \in SrcMatches(s, i) : \A y \in SrcMatches(s, i) : x >= y
        q == FirstAfter(s, k + 1, "q")
    IN [url |-> SubSeq(s, k + 2, q - 1), alt |-> AltText(s, i, FirstAfter(s, q, ">")),
        last |-> FirstAfter(s, q, ">")]

\* an "<img" at i after which a word does not go on (\b)
ImgAt(s, i) == s[i] = "<img" /\ (i = Len(s) \/ s[i + 1] \notin {"a", "b", "x"})

\* re.finditer: the matches from left to right, each search starting where the
\* match before ended
RECURSIVE find_images(_, _)
find_images(s, i) ==
    IF i > Len(s) THEN << >>
    ELSE IF ImgAt(s, i) /\ SrcMatches(s, i) # {}
         THEN <<[url |-> ImageAt(s, i).url, alt |-> ImageAt(s, i).alt]>>
              \o find_images(s, ImageAt(s, i).last + 1)
         ELSE find_images(s, i + 1)

\* re.search in the place of re.finditer: the first match only
extract_first_image(html) ==
    IF html = << >> \/ find_images(html, 1) = << >> THEN << >>
    ELSE <<Head(find_images(html, 1))>>

\* extract_images(html); None and "" are both the empty sequence
extract_images(html) == IF html = << >> THEN << >> ELSE find_images(html, 1)

call_extract_images ==
    /\ call.fn = "extract_images"
    /\ call.pc = "called"
    /\ call' = [call EXCEPT !.pc = "returned", !.out = extract_images(Html(call.in))]
    /\ UNCHANGED session

\* the characters of years, page names and ids: a letter or digit, "cjk" for an
\* ideograph of U+4E00..U+9FFF, the "-" of the allow-list, and "/", "." and "_",
\* which the pattern of safe_page does not allow
FileChars == {"a", "cjk", "-", "/", ".", "_"}
AllowedChars == {"a", "cjk", "-", "m", "g", "z", "i", "n", "e"}
Names(n) == SeqsUpTo(FileChars, n)

\* re.sub(r"[^0-9A-Za-z...]", "_", page_name): a character outside the
\* alphanumerics, the ideographs and the allow-list becomes "_"
safe_page(page_name) ==
    [i \in 1..Len(page_name) |-> IF page_name[i] \in AllowedChars THEN page_name[i] ELSE "_"]

\* `a or b` on strings
Or(a, b) == IF a # << >> THEN a ELSE b

\* the file name of write_issue_markdown: f"{year}_{safe_page or identifier}.md",
\* with its two parts; None is the empty sequence
issue_filename(magazine_meta, fallback_name) ==
    LET year == magazine_meta.year
        identifier == Or(fallback_name, Or(magazine_meta.id, <<"m", "a", "g", "a", "z", "i", "n", "e">>))
        stem == Or(safe_page(magazine_meta.pageName), identifier)
    IN [year |-> year, stem |-> stem, path |-> year \o <<"_">> \o stem \o <<".md">>]

call_issue_filename ==
    /\ call.fn = "issue_filename"
    /\ call.pc = "called"
    /\ call' = [call EXCEPT !.pc = "returned",
                            !.out = issue_filename(call.in.meta, call.in.fallback_name)]
    /\ UNCHANGED session

\* the lines of an issue document below its heading: each article followed by
\* a rule "---", and the rule after the last article taken off again
Rule == [rule |-> TRUE, index |-> NoIndex]
issue_lines(articles) ==
    LET lines == Concat([i \in 1..Len(articles) |->
                           <<[rule |-> FALSE, index |-> articles[i].index], Rule>>])
    IN IF lines # << >> /\ lines[Len(lines)] = Rule THEN SubSeq(lines, 1, Len(lines) - 1)
       ELSE lines

\* the lines of an NDJSON file: {"magazine": {id, pageName}, "year", "article"}
Records ==
    [magazine : [id : {<<"a">>, <<"cjk">>}, pageName : {<< >>, <<"a">>}],
     year : {<<"a">>}, article : [index : {IntIndex(1), IntIndex(2)}]]

\* the keys of `magazines`, in the order of their first record
RECURSIVE FirstSeen(_)
FirstSeen(records) ==
    IF records = << >> THEN << >>
    ELSE LET front == FirstSeen(SubSeq(records, 1, Len(records) - 1))
             id == records[Len(records)].magazine.id
         IN IF id \in Range(front) THEN front ELSE Append(front, id)

\* magazines[magazine_id]: taken from the first record of the magazine
MetaOf(records, magazine_id) ==
    LET first == Head(SelectSeq(records, LAMBDA r : r.magazine.id = magazine_id))
    IN [id |-> magazine_id, year |-> first.year, pageName |-> first.magazine.pageName]

\* articles_by_mag[magazine_id]
ArticlesOf(records, magazine_id) ==
    LET mine == SelectSeq(records, LAMBDA r : r.magazine.id = magazine_id)
    IN [i \in 1..Len(mine) |-> mine[i].article]

\* the output directory after write_issue_markdown was called for the first n
\* magazines: a file written under a name that exists replaces that file
RECURSIVE WrittenIssues(_, _)
WrittenIssues(records, n) ==
    IF n = 0 THEN EmptyDict
    ELSE LET magazine_id == FirstSeen(records)[n]
             articles == sorted_by_index(ArticlesOf(records, magazine_id)).value
         IN Put(WrittenIssues(records, n - 1),
                issue_filename(MetaOf(records, magazine_id), << >>).path,
                issue_lines(articles))

\* generate_markdown: the files in the output directory and the paths returned
generate_markdown(records) ==
    LET ids == FirstSeen(records)
    IN [files |-> WrittenIssues(records, Len(ids)),
        output_files |-> [i \in 1..Len(ids) |->
                            issue_filename(MetaOf(records, ids[i]), << >>).path]]

call_generate_markdown ==
    /\ call.fn = "generate_markdown"
    /\ call.pc = "called"
    /\ call' = [call EXCEPT !.pc = "returned", !.out = generate_markdown(call.in)]
    /\ UNCHANGED session

\* the magazines handed to write_year_markdown and write_all_markdown:
\* magazine 2 is of year 2 and the newest, the others are of year 1, and the
\* dates do not follow the ids
DocYear(m) == IF m = 2 THEN 2 ELSE 1
DocDate(m) == (m % DocMags) + 1
DocMag(m) == [id |-> m, year |-> DocYear(m), date |-> DocDate(m)]

\* the collected details: index i of magazine m has id 10 * m + i
DocArticles ==
    {[id |-> 10 * m + i, index |-> i, magazine_id |-> m, year |-> DocYear(m)] :
        m \in 1..DocMags, i \in 1..MaxIndex}

\* the orders in which the elements of S can be listed
RECURSIVE Perms(_)
Perms(S) ==
    IF S = {} THEN {<< >>}
    ELSE UNION {{<<x>> \o q : q \in Perms(S \ {x})} : x \in S}

\* the listings of the magazines of year y
Listings(y) == Perms({DocMag(m) : m \in {n \in 1..DocMags : DocYear(n) = y}})

call_write_year_markdown ==
    /\ call.fn = "write_year_markdown"
    /\ call.pc = "called"
    /\ call' = [call EXCEPT !.pc = "returned",
                  !.out = write_year_markdown(call.in.year, call.in.magazines,
                                              call.in.all_articles)]
    /\ UNCHANGED session

call_write_all_markdown ==
    /\ call.fn = "write_all_markdown"
    /\ call.pc = "called"
    /\ call' = [call EXCEPT !.pc = "returned",
                  !.out = write_all_markdown(call.in.years, call.in.year_magazines,
                                             call.in.all_articles)]
    /\ UNCHANGED session

\* ---- render_article: the heading line
\* the decimal digits, and the value of a digit
Digit(d) == <<"0", "1", "2", "3", "4", "5", "6", "7", "8", "9">>[d + 1]
DigitChars == {Digit(d) : d \in 0..9}
DigitValue(c) == CHOOSE d \in 0..9 : Digit(d) = c

\* str(n) for an int n >= 0
RECURSIVE Decimal(_)
Decimal(n) == IF n < 10 THEN <<Digit(n)>> ELSE Decimal(n \div 10) \o <<Digit(n % 10)>>

\* f"{n:02d}": a format that pads to two digits
Format02d(n) == [i \in 1..(Max(2, Len(Decimal(n))) - Len(Decimal(n))) |-> "0"] \o Decimal(n)

\* f"{n:03d}" for an int n >= 0: str(n), with zeros in front up to three characters
Format03d(n) == [i \in 1..(Max(3, Len(Decimal(n))) - Len(Decimal(n))) |-> "0"] \o Decimal(n)

\* the characters of the index texts: two digits and a letter
IndexChars == {"0", "7", "x"}

\* int(text) succeeds on a non-empty text of digits (leading zeros allowed)
IsDigits(text) == text # << >> /\ \A i \in 1..Len(text) : text[i] \in DigitChars

\* the value int(text) returns for a text of digits
RECURSIVE IntOf(_)
IntOf(text) ==
    IF text = << >> THEN 0
    ELSE 10 * IntOf(SubSeq(text, 1, Len(text) - 1)) + DigitValue(text[Len(text)])

\* the values article.get("index") gives render_article: an int, a str, None
RawInt(n) == [t |-> "int", n |-> n, s |-> << >>]
RawStr(text) == [t |-> "str", n |-> 0, s |-> text]
RawNone == [t |-> "none", n |-> 0, s |-> << >>]
RawIndexes ==
    {RawNone} \cup {RawInt(n) : n \in 0..MaxOrdinal}
    \cup {RawStr(text) : text \in SeqsUpTo(IndexChars, MaxIndexText)}

\* try: f"{int(index_raw):03d}" except (TypeError, ValueError): str(index_raw)
index_str(index_raw) ==
    IF index_raw.t = "int" THEN Format03d(index_raw.n)
    ELSE IF index_raw.t = "str"
         THEN (IF IsDigits(index_raw.s) THEN Format03d(IntOf(index_raw.s)) ELSE index_raw.s)
         ELSE <<"N", "o", "n", "e">>

\* the titles of the articles rendered
Titles == {<< >>, <<"t">>, <<"<", "t", ">", "l">>, <<"&", "l", "t", ";">>}

\* render_article(article): the line f"## {index_str} {title}" it puts first,
\* the title being normalise_whitespace(title), that is clean_html(title) on
\* texts without line breaks
render_article(article) ==
    [index_str |-> index_str(article.index),
     heading |-> <<"#", "#", " ">> \o index_str(article.index) \o <<" ">>
                   \o clean_html(article.title)]

call_render_article ==
    /\ call.fn = "render_article"
    /\ call.pc = "called"
    /\ call' = [call EXCEPT !.pc = "returned", !.out = render_article(call.in)]
    /\ UNCHANGED session

\* the calls made of the functions of export.py
Calls ==
    {Called1("sorted", x) : x \in ArticleLists}
    \cup {Called1("clean_html", x) : x \in Texts}
    \cup {Called1("extract_images", x) : x \in SeqsUpTo(Fragments, MaxTags)}
    \cup {Called1("generate_markdown", x) : x \in SeqsUpTo(Records, MaxRecords)}
    \cup {Called1("write_year_markdown", x) :
             x \in [year : {1}, magazines : Perms({DocMag(m) : m \in 1..DocMags}),
                    all_articles : SeqsUpTo(DocArticles, MaxCollected)]}
    \cup {Called1("write_all_markdown", x) :
             x \in UNION {[years : {years},
                           year_magazines : {[i \in 1..2 |-> <<years[i], l[years[i]]>>] :
                                               l \in {f \in [1..2 -> Listings(1) \cup Listings(2)] :
                                                         \A y \in 1..2 : f[y] \in Listings(y)}},
                           all_articles : SeqsUpTo(DocArticles, MaxCollected)] :
                          years \in Perms({1, 2})}}
    \cup {Called1("issue_filename", x) :
             x \in [meta : [year : Names(1), pageName : Names(MaxName), id : Names(1)],
                    fallback_name : Names(1)]}
    \cup {Called1("render_article", x) : x \in [index : RawIndexes, title : Titles]}

\* a session in which one function of export.py is called once
InitExport ==
    /\ site = [years |-> 1, mags |-> 1, arts |-> 1, list_fields |-> {}, detail_fields |-> {}]
    /\ runs_left = 0
    /\ faults_left = 0
    /\ Fresh
    /\ issue_combo = [state |-> "disabled", values |-> << >>]
    /\ article_list = [state |-> "normal", items |-> << >>]
    /\ current_year = None
    /\ current_magazine_id = None
    /\ magazines_by_year = EmptyDict
    /\ articles_by_mag = EmptyDict
    /\ call \in Calls

NextExport ==
    \/ call_sorted
    \/ call_clean_html
    \/ call_extract_images
    \/ call_issue_filename
    \/ call_generate_markdown
    \/ call_write_year_markdown
    \/ call_write_all_markdown
    \/ call_render_article

SpecExport == InitExport /\ [][NextExport]_vars

Spec == Init /\ [][Next]_vars

SpecRuns == InitRuns /\ [][NextRuns]_vars

SpecPool == InitPool /\ [][NextPool]_vars

SpecCache == InitCache /\ [][NextCache]_vars

\* Tk's main loop runs every callback that is due
MainLoop ==
    /\ WF_vars(start_progress)
    /\ WF_vars(update_progress)
    /\ WF_vars(reset_progress)
    /\ WF_vars(export_success)
    /\ WF_vars(export_failed)
    /\ WF_vars(_finish_cancel)

SpecLive == InitLive /\ [][Next]_vars /\ MainLoop

\* a thread that can run is scheduled
Scheduler == \A r \in Runs : WF_vars(Worker(r))

SpecPause == InitPause /\ [][Next]_vars /\ MainLoop /\ Scheduler

\* the threads of the pool are scheduled, and every remote call they make
\* returns or raises
PoolThreads ==
    \A r \in Runs :
        /\ WF_vars(\E p \in 1..Len(w[r].futs) : PoolBegin(r, p))
        /\ WF_vars(\E p \in 1..Len(w[r].futs) : PoolFinish(r, p))

\* Event.set() wakes the thread that waits on the event, and the woken thread
\* returns from wait() even when the event is cleared again at once: a worker
\* whose gate is opened again and again gets past it
Woken == \A r \in Runs : SF_vars(Worker(r))

\* one export on the site of SpecPause, with every thread scheduled and every
\* remote call ending
SpecEnd == InitPause /\ [][Next]_vars /\ MainLoop /\ Woken /\ PoolThreads

\* ------------------------------------------------------------- properties
Count(s, x) == Cardinality({i \in 1..Len(s) : s[i] = x})

\* the worker thread of run r has been started and has not ended
Live(r) == w[r].pc \notin {"idle", "done"}

\* the magazines that have a section in one of the documents
MagsWritten(docs) ==
    UNION {{docs[i].sections[j].mag : j \in 1..Len(docs[i].sections)} : i \in 1..Len(docs)}

\* article a is rendered in the section of magazine mag of year `year`
InSection(doc, year, mag, a) ==
    \E j \in 1..Len(doc.sections) :
        /\ doc.sections[j].year = year
        /\ doc.sections[j].mag = mag
        /\ a \in Range(doc.sections[j].arts)

\* C1: at no point are two export worker threads running at the same time.
C1_OneWorkerAtATime == Cardinality({r \in Runs : Live(r)}) <= 1

\* the magazines whose documents were written when cancel_export was invoked
MagsAtCancel(r) == MagsWritten(SubSeq(written[r], 1, cancel_at[r]))

\* C2: in a year-scope export over several magazines, when cancel_export is
\* invoked after the k-th magazine's documents are written (k >= 1) and before
\* the next of the remaining magazines begins, and nothing raises, the finished
\* run has written the documents of exactly those k magazines and its worker
\* reports _finish_cancel, not export_success.
C2_CancelBetweenMagazines ==
    \A r \in Runs :
        (/\ w[r].pc = "done"
         /\ w[r].scope = "year"
         /\ cancel_at[r] # None
         /\ cancel_between[r]
         /\ raised[r] = {}
         /\ MagsAtCancel(r) # {}
         /\ Cardinality(MagsAtCancel(r)) < Len(fetch_magazines(w[r].year)))
        => /\ MagsWritten(written[r]) = MagsAtCancel(r)
           /\ w[r].posted = "_finish_cancel"

\* C3: once cancel_export has been invoked during a run, the run writes no
\* further document: the files it has written are those written at the cancel.
C3_NoWriteAfterCancel ==
    \A r \in Runs : cancel_at[r] # None => Len(written[r]) = cancel_at[r]

\* C4: no run has two terminal handlers (export_success, export_failed,
\* _finish_cancel) executed for it.
C4_OneTerminalReport == \A r \in Runs : Len(terminals[r]) <= 1

\* C5: a run in which the only exceptions raised are detail-fetch failures,
\* and which is not cancelled, ends with export_success, in every scope and mode.
C5_DetailFailureNotFatal ==
    \A r \in Runs :
        (w[r].pc = "done" /\ raised[r] = {"detail"} /\ cancel_at[r] = None)
        => w[r].posted = "export_success"

\* C6: a run in which a document write raised, and which is not cancelled,
\* ends with export_failed, in every scope and mode.
C6_WriteFailureEndsFailed ==
    \A r \in Runs :
        (w[r].pc = "done" /\ "write" \in raised[r] /\ cancel_at[r] = None)
        => w[r].posted = "export_failed"

\* the branches of worker_func that write one document after the collection loop
Aggregating(wr) == Branch(wr) \in {"issue/collect", "year/collect", "all/all_in_one"}

\* C7 as stated: a run in whose worker fetch_magazines or fetch_articles raised
\* ends with export_failed, no export_success is executed for it, and its
\* aggregated document is not written.
C7_ListingFailureEndsFailed ==
    \A r \in Runs :
        (w[r].pc = "done" /\ "listing" \in raised[r])
        => /\ w[r].posted = "export_failed"
           /\ "export_success" \notin Range(terminals[r])
           /\ Aggregating(w[r]) => written[r] = << >>

\* C7 amended: a run in whose worker fetch_magazines or fetch_articles raised
\* ends with export_failed -- or with _finish_cancel when cancel_export had set
\* cancel_flag before the worker read it -- no export_success is executed for
\* it, and its aggregated document is not written.
C7_ListingFailureReport ==
    \A r \in Runs :
        (w[r].pc = "done" /\ "listing" \in raised[r])
        => /\ w[r].posted = (IF w[r].cancel_flag THEN "_finish_cancel" ELSE "export_failed")
           /\ "export_success" \notin Range(terminals[r])
           /\ Aggregating(w[r]) => written[r] = << >>

\* a listing call raised in the worker of an aggregating run, and export_failed
\* has been executed for the run
C7_Witness ==
    \E r \in Runs :
        /\ w[r].pc = "done"
        /\ "listing" \in raised[r]
        /\ Aggregating(w[r])
        /\ w[r].posted = "export_failed"
        /\ terminals[r] = <<"export_failed">>

\* C8: when a year-scope export in per_year mode completes, every article whose
\* detail fetch succeeded is rendered in the year document, in the section of
\* its magazine.
C8_YearDocumentHoldsFetched ==
    \A r \in Runs :
        (/\ w[r].pc = "done"
         /\ w[r].scope = "year"
         /\ w[r].mode = "per_year"
         /\ w[r].posted = "export_success")
        => \E i \in 1..Len(written[r]) :
              /\ written[r][i].kind = "year"
              /\ \A a \in fetch_ok[r] :
                    InSection(written[r][i], w[r].year, MagOfArt(a), a)

\* C9: when an all-scope export in all_in_one mode completes, every article
\* whose detail fetch succeeded is rendered in the corpus document, in the
\* section of its year and magazine.
C9_CorpusDocumentHoldsFetched ==
    \A r \in Runs :
        (/\ w[r].pc = "done"
         /\ w[r].scope = "all"
         /\ w[r].mode = "all_in_one"
         /\ w[r].posted = "export_success")
        => \E i \in 1..Len(written[r]) :
              /\ written[r][i].kind = "all"
              /\ \A a \in fetch_ok[r] :
                    InSection(written[r][i], YearOfMag(MagOfArt(a)), MagOfArt(a), a)

\* C10: in per_article mode, while cancel_export has not been invoked,
\* write_article_separately is called at most once per article, only for
\* articles whose detail fetch succeeded, never for one whose fetch failed, and
\* when the worker has ended it has been called once for every fetched article.
C10_OneWritePerFetchedArticle ==
    \A r \in Runs :
        (w[r].mode = "per_article" /\ cancel_at[r] = None)
        => /\ \A a \in fetch_err[r] : Count(write_calls[r], a) = 0
           /\ \A a \in Range(write_calls[r]) :
                 Count(write_calls[r], a) = 1 /\ a \in fetch_ok[r]
           /\ w[r].pc = "done" =>
                 \A a \in fetch_ok[r] : Count(write_calls[r], a) = 1

\* a per_article run over several articles has ended without a cancel: one
\* fetch failed, the others succeeded and were each handed to the writer
C10_Witness ==
    \E r \in Runs :
        /\ w[r].pc = "done"
        /\ w[r].mode = "per_article"
        /\ cancel_at[r] = None
        /\ fetch_err[r] # {}
        /\ Cardinality(fetch_ok[r]) >= 2
        /\ Len(write_calls[r]) = Cardinality(fetch_ok[r])

\* C11: every written issue document lists its articles strictly ascending by
\* index, whatever the order in which the detail fetches completed.
C11_IssueDocumentAscending ==
    \A r \in Runs : \A i \in 1..Len(written[r]) :
        written[r][i].kind = "issue" =>
            LET arts == written[r][i].sections[1].arts
            IN \A j, k \in 1..Len(arts) : j < k => IndexOf(arts[j]) < IndexOf(arts[k])

\* an issue export has written its document of several articles, and the order
\* in which the worker collected the details is not the order in the document
C11_Witness ==
    \E r \in Runs :
        /\ w[r].pc = "terminal"
        /\ Branch(w[r]) = "issue/collect"
        /\ Len(written[r]) = 1
        /\ Len(written[r][1].sections[1].arts) >= 2
        /\ Ids(w[r].mag_articles) # written[r][1].sections[1].arts

\* C12: once populated, and until the next successful login, a cached magazine
\* list, a record of a cached article list and a cached article detail keep
\* their value through every lookup, display and export.
C12_CachedRecordsNeverModified ==
    [][logins'.ok = logins.ok =>
       /\ \A y \in DOMAIN magazines_by_year :
             y \in DOMAIN magazines_by_year' => magazines_by_year'[y] = magazines_by_year[y]
       /\ \A m \in DOMAIN articles_by_mag :
             m \in DOMAIN articles_by_mag' => articles_by_mag'[m] = articles_by_mag[m]
       /\ \A a \in DOMAIN article_details :
             a \in DOMAIN article_details' => article_details'[a] = article_details[a]]_vars

\* C17: while an export runs, no worker thread calls a method that changes the
\* interface itself; log and update_progress are reached only through after().
C17_WorkersNeverTouchUi == \A r \in Runs : w[r].direct_ui = {}

\* C18: in every scope and mode, start_progress is posted for a run before the
\* first update_progress of that run.
C18_StartBeforeUpdate ==
    \A i \in 1..Len(after_queue) :
        after_queue[i].fn = "update_progress" => w[after_queue[i].run].progress_started

\* the calls of get_article_detail a run has handed to a pool thread and that
\* have not returned
InFlight(wr) == {p \in 1..Len(wr.futs) : wr.futs[p].st = "running"}

\* C19: a run never has more than 3 calls of get_article_detail in flight, every
\* call in flight is for an article of the magazine the run is working on, and
\* the futures of a magazine are dropped only when all of them are done.
C19_PoolBoundAndDrain ==
    [][\A r \in Runs :
         /\ Cardinality(InFlight(w'[r])) <= 3
         /\ \A p \in InFlight(w'[r]) :
               /\ w'[r].mi \in 1..Len(w'[r].magazines)
               /\ MagOfArt(w'[r].arts[p].id) = w'[r].magazines[w'[r].mi].id
         /\ (w[r].futs # << >> /\ w'[r].futs # w[r].futs /\ Len(w'[r].futs) # Len(w[r].futs))
               => \A p \in 1..Len(w[r].futs) : w[r].futs[p].st \in {"ok", "err"}]_vars

\* the second magazine of the year: three calls in flight and a fourth queued
C19_Witness ==
    \E r \in Runs :
        /\ w[r].scope = "year"
        /\ w[r].mi = 2
        /\ Cardinality(InFlight(w[r])) = 3
        /\ \E p \in 1..Len(w[r].futs) : w[r].futs[p].st = "queued"

ResetPending == \E i \in 1..Len(after_queue) : after_queue[i].fn = "reset_progress"
ProgressIdle == progress_total = 1 /\ progress_current = 0

\* C20: export_success, export_failed and _finish_cancel each set is_exporting
\* false, re-enable the export controls, disable pause and cancel and schedule
\* reset_progress; a scheduled reset_progress sets the progress to 0 of 1, and
\* the progress is eventually idle.
C20_TerminalHandlersRestoreIdle ==
    /\ [][/\ terminals' # terminals =>
               /\ is_exporting' = FALSE
               /\ export_controls' = "normal"
               /\ pause_button' = "disabled"
               /\ cancel_button' = "disabled"
               /\ after_queue' # << >>
               /\ after_queue'[Len(after_queue')].fn = "reset_progress"
          /\ (Len(SelectSeq(after_queue', LAMBDA c : c.fn = "reset_progress"))
                 < Len(SelectSeq(after_queue, LAMBDA c : c.fn = "reset_progress"))) =>
               (progress_total' = 1 /\ progress_current' = 0)]_vars
    /\ (ResetPending ~> ProgressIdle)

\* a terminal handler has run, its reset_progress is still pending and the
\* progress is not idle
C20_Witness ==
    /\ ResetPending
    /\ ~ProgressIdle
    /\ is_exporting = FALSE
    /\ \E r \in Runs : terminals[r] # << >>

\* the key of an accessor is in the accessor's cache
IsCached(k) ==
    CASE k[1] = "magazines" -> k[2] \in DOMAIN magazines_by_year
      [] k[1] = "articles" -> k[2] \in DOMAIN articles_by_mag
      [] k[1] = "detail" -> k[2] \in DOMAIN article_details

\* C13: for each of get_magazines_for_year, get_articles_for_magazine and
\* get_article_detail, a call for a key that is not cached makes one remote call
\* and, unless that call raises, caches the key; a call for a cached key makes
\* none.  Two calls in sequence with the same key, the first of which succeeds,
\* therefore make exactly one remote call.
C13_OneRemoteCallPerKey ==
    [][\A k \in AccessKeys :
         access'[k].calls # access[k].calls =>
            /\ access'[k].calls = access[k].calls + 1
            /\ IF IsCached(k)
               THEN access'[k].remote = access[k].remote /\ IsCached(k)'
               ELSE /\ access'[k].remote = access[k].remote + 1
                    /\ (IsCached(k)' \/ faults_left' < faults_left)]_vars

\* each accessor has been called twice with one key since the session began,
\* the first call succeeded, and one remote call was made for the key
C13_Witness ==
    /\ logins.started = 0
    /\ faults_left = MaxFaults
    /\ \A kind \in {"magazines", "articles", "detail"} :
         \E k \in AccessKeys :
            /\ k[1] = kind
            /\ IsCached(k)
            /\ access[k].calls = 2
            /\ access[k].remote = 1

\* the detail record a call of get_article_detail(a, ...) enriches in this
\* state, and the record the call returns when it does not raise
DetailOf(a) ==
    IF a \in DOMAIN article_details THEN article_details[a] ELSE fetch_article_detail(a)
Returned(a, base) ==
    IF a \in DOMAIN article_details THEN CachedDetail(article_details, a, base)
    ELSE FetchedDetail(a, base)

\* C14: for any detail record and any base record, the enriched record keeps
\* the value of every field the detail has, and has the base's value for every
\* field of the enrichment set that the detail lacks and the base has.
C14_EnrichmentKeepsAndFills ==
    \A a \in Arts : \A base \in Bases(a) :
        Truthy(base) =>
            /\ \A k \in DOMAIN DetailOf(a) :
                  k \in DOMAIN Returned(a, base) /\ Returned(a, base)[k] = DetailOf(a)[k]
            /\ \A k \in FETCH_KEYS :
                  (k \notin DOMAIN DetailOf(a) /\ k \in DOMAIN base) =>
                      k \in DOMAIN Returned(a, base) /\ Returned(a, base)[k] = base[k]

\* what both paths of get_article_detail do: the fields of the detail are kept,
\* and the seven fields both key tuples name are filled from the base
EnrichmentOnSharedFields ==
    \A a \in Arts : \A base \in Bases(a) :
        Truthy(base) =>
            /\ \A k \in DOMAIN DetailOf(a) :
                  k \in DOMAIN Returned(a, base) /\ Returned(a, base)[k] = DetailOf(a)[k]
            /\ \A k \in CACHED_KEYS :
                  (k \notin DOMAIN DetailOf(a) /\ k \in DOMAIN base) =>
                      k \in DOMAIN Returned(a, base) /\ Returned(a, base)[k] = base[k]

\* C15: a hit on the cache enriches the cached detail by the rule a fetch
\* applies to the fetched detail: the same fields, from the same base.
C15_SameRuleOnBothPaths ==
    \A a \in DOMAIN article_details : \A base \in Bases(a) :
        Truthy(base) =>
            CachedDetail(article_details, a, base)
                = Enrich(article_details[a], base, FETCH_KEYS)

\* C16: the step of on_login_success leaves the three caches empty, and the
\* step of on_login_failed leaves them as they were.
C16_LoginClearsCaches ==
    [][/\ logins'.ok # logins.ok =>
             /\ magazines_by_year' = EmptyDict
             /\ articles_by_mag' = EmptyDict
             /\ article_details' = EmptyDict
       /\ logins'.failed # logins.failed => UNCHANGED caches]_vars

\* one login has failed and a later one has succeeded; every accessor had
\* fetched and cached a key before, and the three caches are empty
C16_Witness ==
    /\ logins = [started |-> 2, ok |-> 1, failed |-> 1]
    /\ \A k \in AccessKeys : access[k].remote = 1
    /\ magazines_by_year = EmptyDict
    /\ articles_by_mag = EmptyDict
    /\ article_details = EmptyDict

\* C21: the step of an accepted _start_export leaves is_exporting true,
\* cancel_flag false and the pause gate of the new run open, the export controls
\* disabled and the pause and cancel buttons enabled, whatever the run before
\* left behind.
C21_StartExportResetsSignals ==
    [][nruns' # nruns =>
         /\ is_exporting'
         /\ ~cancel_flag'
         /\ pause_event' = nruns'
         /\ event_set'[pause_event']
         /\ export_controls' = "disabled"
         /\ pause_button' = "normal"
         /\ cancel_button' = "normal"]_vars

\* the second export has just been accepted; the first was cancelled and then
\* paused, so it left cancel_flag true and its gate closed
C21_Witness ==
    /\ nruns = 2
    /\ w[2].pc = "capture"
    /\ cancel_at[1] # None
    /\ ~event_set[1]
    /\ is_exporting

\* C23: once the failure handler of a listing that failed to load has run, the
\* three caches, current_year, current_magazine_id and the state and contents
\* of the issue selector and of the article list are what they were when the
\* selection was made.
C23_FailedLoadLeavesStateUntouched ==
    selection.pc = "failed" => Snapshot = selection.before

\* the worker of run r is at a pause_event.wait(): at the top of the year or
\* magazine loop, or in the as_completed loop with a finished future to take
AtGate(r) ==
    \/ w[r].pc \in {"year_head", "mag_head"}
    \/ /\ w[r].pc = "pool"
       /\ ~w[r].cancel_flag
       /\ \E p \in 1..Len(w[r].futs) : p \notin w[r].yielded /\ Done(w[r].futs[p])

\* where in its loops the worker of run r is
Position(r) == <<w[r].pc, w[r].yi, w[r].mi, w[r].yielded>>

\* C22: while its pause gate is closed a worker writes at most one more
\* document; a worker at pause_event.wait() stays there as long as the gate is
\* closed; and a worker cannot stay for ever at a wait whose gate is open:
\* once toggle_pause reopens the gate it goes on with the next unit.
C22_PauseHoldsWorkerAtGate ==
    /\ [](\A r \in Runs : paused_at[r] # None => Len(written[r]) <= paused_at[r] + 1)
    /\ [][\A r \in Runs :
            (AtGate(r) /\ ~event_set[r] /\ ~event_set'[r]) =>
                (Position(r)' = Position(r) /\ written'[r] = written[r])]_vars
    /\ \A r \in Runs : []<>(~(AtGate(r) /\ event_set[r]))

\* the gate was closed after the worker had passed it: the worker has written
\* the document of that unit and now waits at the top of the magazine loop
C22_Witness ==
    \E r \in Runs :
      /\ paused_at[r] # None
      /\ Len(written[r]) = paused_at[r] + 1
      /\ w[r].pc = "mag_head"
      /\ w[r].mi = 2
      /\ Branch(w[r]) = "year/per_issue"

\* the list in the order the spec describes: by index ascending, a missing or
\* non-numeric index counting as 0, ties in the order given
SortedWithZeroDefault(articles) ==
    SortByKeys(articles, [i \in 1..Len(articles) |->
                            IF articles[i].index.t = "int" THEN articles[i].index.v ELSE 0])

\* C24: a list that mixes integer, missing and non-numeric indices is sorted
\* without error, the missing and non-numeric ones ordered as index 0.
C24_SortTreatsOddIndexAsZero ==
    (call.fn = "sorted" /\ call.pc = "returned") =>
        /\ call.out.raised = ""
        /\ call.out.value = SortedWithZeroDefault(call.in)

\* C27: cleaning what clean_html returned changes nothing.
C27_CleanHtmlIdempotent ==
    (call.fn = "clean_html" /\ call.pc = "returned") => clean_html(call.out) = call.out

\* C28: what clean_html returns holds no angle bracket (and so no
\* <%basePath%> placeholder).
C28_CleanOutputHasNoAngleBracket ==
    (call.fn = "clean_html" /\ call.pc = "returned") =>
        \A i \in 1..Len(call.out) : call.out[i] \notin {"<", ">"}

\* the image tags that carry a quoted, non-empty src attribute
WellFormed(fragments) == SelectSeq(fragments, LAMBDA f : f.kind \in {"quoted", "alt_first"})

C30_IssueFilenameIsSafe ==
    (call.fn = "issue_filename" /\ call.pc = "returned") =>
        \A c \in Range(call.out.year) \cup Range(call.out.stem) : c \in AllowedChars \cup {"_"}

\* the document the spec describes for a list of articles: the articles in
\* ascending index order, one rule between two of them, none after the last
ExpectedIssue(articles) ==
    LET sorted == SortedWithZeroDefault(articles)
    IN [i \in 1..(IF sorted = << >> THEN 0 ELSE 2 * Len(sorted) - 1) |->
          IF i % 2 = 1 THEN [rule |-> FALSE, index |-> sorted[(i + 1) \div 2].index]
          ELSE Rule]

\* C25: generate_markdown leaves one file per magazine id of the input, and
\* the file of each magazine holds its articles in ascending index order with
\* one rule between two articles and none after the last.
C25_OneFilePerMagazine ==
    (call.fn = "generate_markdown" /\ call.pc = "returned") =>
        LET ids == Range(FirstSeen(call.in))
        IN /\ Cardinality(DOMAIN call.out.files) = Cardinality(ids)
           /\ \A id \in ids :
                \E path \in DOMAIN call.out.files :
                   call.out.files[path] = ExpectedIssue(ArticlesOf(call.in, id))

\* when no two magazines share a file name the files are as described
FilesWhenNamesDiffer ==
    (call.fn = "generate_markdown" /\ call.pc = "returned") =>
        LET ids == FirstSeen(call.in)
        IN (\A i, j \in 1..Len(ids) :
               call.out.output_files[i] = call.out.output_files[j] => i = j)
           => /\ Cardinality(DOMAIN call.out.files) = Len(ids)
              /\ \A i \in 1..Len(ids) :
                   call.out.files[call.out.output_files[i]]
                       = ExpectedIssue(ArticlesOf(call.in, ids[i]))

\* the index of the article rendered at position k of section sec
ArtIndex(sec, k) == sec.arts[k] % 10

\* the articles of every section are in ascending index order
ArticlesAscending(doc) ==
    \A n \in 1..Len(doc.sections) :
       \A k \in 1..(Len(doc.sections[n].arts) - 1) :
          ArtIndex(doc.sections[n], k) <= ArtIndex(doc.sections[n], k + 1)

\* sections i < j of the document are in ascending order of magazine date
DatesAscending(doc, i, j) == DocDate(doc.sections[i].mag) <= DocDate(doc.sections[j].mag)

\* the position of year y in the list `years`
YearPos(years, y) == CHOOSE i \in 1..Len(years) : years[i] = y

C31_IndexZeroPadded ==
    (call.fn = "render_article" /\ call.pc = "returned") =>
      LET raw == call.in.index
          istr == call.out.index_str
          numeric == raw.t = "int" \/ (raw.t = "str" /\ IsDigits(raw.s))
          n == IF raw.t = "int" THEN raw.n ELSE IntOf(raw.s)
      IN /\ Len(call.out.heading) >= 4 + Len(istr)
         /\ SubSeq(call.out.heading, 1, 4 + Len(istr)) = <<"#", "#", " ">> \o istr \o <<" ">>
         /\ numeric => /\ Len(istr) >= 3
                       /\ \A i \in 1..Len(istr) : istr[i] \in DigitChars
                       /\ IntOf(istr) = n
                       /\ (Len(istr) > 3 => istr[1] # "0")
         /\ raw = RawInt(7) => istr = <<"0", "0", "7">>
         /\ raw.t = "none" => istr = <<"N", "o", "n", "e">>
         /\ (raw.t = "str" /\ ~IsDigits(raw.s)) => istr = raw.s

\* index 7 is rendered with two zeros in front of it, before a cleaned title
C31_Witness ==
    /\ call.fn = "render_article"
    /\ call.pc = "returned"
    /\ call.in.index = RawInt(7)
    /\ call.in.title = <<"<", "t", ">", "l">>
    /\ call.out.heading = <<"#", "#", " ", "0", "0", "7", " ", "l">>

\* C32: whenever is_exporting is false, no export worker started by
\* _start_export is still running, so that no detail fetch and no document
\* write of a run happens after the run's terminal handler has executed.
C32_NoWorkerWhileIdle == is_exporting = FALSE => \A r \in Runs : ~Live(r)

\* C33: after cancel_export has been invoked the export worker is never left
\* blocked at the pause gate: whatever toggle_pause calls precede or follow the
\* cancel while the pause button is enabled, the worker thread of the cancelled
\* run eventually terminates.
C33_CancelReleasesWorker ==
    \A r \in Runs : [](cancel_at[r] # None => <>(~Live(r)))

\* run r is the latest run, start_progress has executed for it and none of its
\* terminal handlers has: the progress bar shows the progress of run r
ShowsProgressOf(r) ==
    /\ r = nruns
    /\ w[r].progress_started
    /\ \A i \in 1..Len(after_queue) :
          ~(after_queue[i].fn = "start_progress" /\ after_queue[i].run = r)
    /\ terminals[r] = << >>

\* C34: a reset_progress scheduled at the end of one run never resets the
\* progress of a later run: once start_progress has executed for the later run,
\* progress_total and progress_current are changed only by callbacks of that
\* run.
C34_ResetSparesLaterRun ==
    [][\A r \in Runs :
         (/\ ShowsProgressOf(r)
          /\ <<progress_total, progress_current>>' # <<progress_total, progress_current>>)
         => \E i \in 1..Len(after_queue) :
               /\ after_queue[i].run = r
               /\ after_queue' = Remove(after_queue, i)]_vars

\* C35: after a successful login has cleared the caches, no record obtained
\* from a remote request issued before that login is inserted into
\* magazines_by_year or articles_by_mag: while the listing that is loading was
\* requested before the latest successful login, no step adds a key to them.
C35_NoInsertOfEarlierRequest ==
    [][(selection.pc = "fetching" /\ selection.login < logins.ok)
       => /\ DOMAIN magazines_by_year' \subseteq DOMAIN magazines_by_year
          /\ DOMAIN articles_by_mag' \subseteq DOMAIN articles_by_mag]_vars

\* C36: when every thread is scheduled, every remote call returns or raises
\* and the pause gate of a running worker is not left closed for ever, every
\* accepted export run eventually has a terminal handler executed for it, and
\* is_exporting becomes false again.
C36_EveryRunEnds ==
    \A r \in Runs :
        ([]<>(~Live(r) \/ event_set[r]))
        => [](r <= nruns => <>(terminals[r] # << >> /\ ~is_exporting))

\* a run that was paused and resumed, met a failing call and was not cancelled
\* has ended with one terminal handler
C36_Witness ==
    /\ nruns = 1
    /\ w[1].pc = "done"
    /\ ncancels = 0
    /\ raised[1] # {}
    /\ Len(terminals[1]) = 1
    /\ ~is_exporting

\* the articles in the scope of an export run
ArticlesInScope(wr) ==
    Cardinality({a \in Arts :
                   IF wr.scope = "issue" THEN MagOfArt(a) = wr.magazine.id
                   ELSE IF wr.scope = "year" THEN YearOfMag(MagOfArt(a)) = wr.year
                   ELSE TRUE})

\* the first terminal handler of run r is executed in this step
FirstReport(r) == terminals[r] = << >> /\ terminals'[r] # << >>

C38_ProgressInRange ==
    /\ progress_total >= 1
    /\ 0 <= progress_current
    /\ progress_current <= progress_total

\* the bar is full, of a total above 1, and another update_progress is pending:
\* it will be clamped
C38_Witness ==
    /\ progress_total >= 2
    /\ progress_current = progress_total
    /\ \E i \in 1..Len(after_queue) : after_queue[i].fn = "update_progress"
    /\ \E i \in 1..Len(after_queue) : after_queue[i].fn = "reset_progress"

\* C39: when the remote call inside get_magazines_for_year,
\* get_articles_for_magazine or get_article_detail raises, no entry is stored
\* for the requested key and every other cache entry is unchanged; and a call
\* for a key that has no entry performs the remote call, so that a later call
\* for the same key asks the remote site again.
C39_FailedFetchStoresNothing ==
    [][\A k \in AccessKeys :
         /\ (access'[k].remote = access[k].remote + 1 /\ faults_left' < faults_left)
            => /\ caches' = caches
               /\ ~IsCached(k)'
         /\ (access'[k].calls # access[k].calls /\ ~IsCached(k))
            => access'[k].remote = access[k].remote + 1]_vars

\* with no login in between, the first call for a key raised and the second
\* call for the same key made the remote call again and cached the key
C39_Witness ==
    /\ logins.started = 0
    /\ \E k \in AccessKeys :
          /\ IsCached(k)
          /\ access[k].calls = 2
          /\ access[k].remote = 2

\* C40: a call of get_article_detail for an article id that is cached, with
\* any base record, leaves article_details unchanged: the enrichment is applied
\* to the copy that is returned, never to the cached record.
C40_CachedLookupLeavesCache ==
    [][\A a \in Arts :
         (/\ access'[<<"detail", a>>].calls # access[<<"detail", a>>].calls
          /\ a \in DOMAIN article_details)
         => article_details' = article_details]_vars

\* an article was fetched and then looked up again, and its cached record
\* still lacks a field that a base record of the callers would fill in the
\* copy that is returned
C40_Witness ==
    \E a \in Arts :
        /\ a \in DOMAIN article_details
        /\ access[<<"detail", a>>].calls = 2
        /\ access[<<"detail", a>>].remote = 1
        /\ \E base \in Bases(a) : CachedDetail(article_details, a, base) # article_details[a]

=============================================================================
